---- MODULE Spec2Model ----
(***************************************************************************)
(* State-machine model of the rental ledger: RentalCore, PaymentManager,  *)
(* ComplianceVerifier and AccessControlManager.  Every external call is   *)
(* one atomic step (an EVM transaction): a failed require reverts the     *)
(* whole call, so the step leaves the contract state as it was and only   *)
(* records the revert reason in `last`.                                    *)
(***************************************************************************)
EXTENDS Integers, Sequences, FiniteSets, TLC

(***************************************************************************)
(* Bounds of the model                                                     *)
(***************************************************************************)
MaxProperties == 1
MaxAgreements == 1
MaxPayments == 2
MaxGrants == 1
MaxLateFees == 2
MaxElapsedDays == 8
MaxArrearsDays == 44
MaxSystemDays == 6
MaxRegistered == 3
MaxExtraGrants == 1
MaxDaysLate == 10
MaxAmountSteps == 4
T0 == 1000000

(***************************************************************************)
(* Program constants                                                       *)
(***************************************************************************)
LATE_FEE_PERCENTAGE == 10
GRACE_PERIOD_DAYS == 5
SECONDS_PER_DAY == 86400
DaysPerMonth == 30
StatusDisputed == 4
AGREEMENT_TYPE == 1
PROPERTY_TYPE == 2
LANDLORD_TYPE == 3
TENANT_TYPE == 4

\* enum AgreementStatus, by its uint8 value
Pending == 0
Active == 1
Terminated == 2
Expired == 3
Disputed == StatusDisputed

\* the revert of checked arithmetic (SafeMath.sub of a larger number)
Underflow == "Panic: arithmetic underflow"

\* enum PaymentType
Rent == "Rent"
Deposit == "Deposit"
LateFee == "LateFee"

(***************************************************************************)
(* Addresses, digests and the inputs the calls are tried with              *)
(***************************************************************************)
Zero == "0x0"
ZeroHash == "0x00"
Accounts == {"Admin", "Landlord", "Tenant"}
\* a contract address without a payable receive function
Rejector == "Rejector"
Recipients == {"Tenant", Rejector, Zero}

SYSTEM_ADMIN == "SYSTEM_ADMIN"
DEFAULT_ADMIN_ROLE == "DEFAULT_ADMIN_ROLE"
PAYMENT_MANAGER == "PAYMENT_MANAGER"

LANDLORD == "LANDLORD"
TENANT == "TENANT"
BROKER == "BROKER"
PROPERTY_MANAGER == "PROPERTY_MANAGER"
LEGAL_VERIFIER == "LEGAL_VERIFIER"

REGISTER_PROPERTY == "REGISTER_PROPERTY"
CREATE_AGREEMENT == "CREATE_AGREEMENT"
UPDATE_AGREEMENT == "UPDATE_AGREEMENT"
PROCESS_PAYMENT == "PROCESS_PAYMENT"
ACCESS_PAYMENT_HISTORY == "ACCESS_PAYMENT_HISTORY"
VERIFY_COMPLIANCE == "VERIFY_COMPLIANCE"
TRANSFER_OWNERSHIP == "TRANSFER_OWNERSHIP"
TERMINATE_AGREEMENT == "TERMINATE_AGREEMENT"
UPDATE_SYSTEM == "UPDATE_SYSTEM"
allPermissions ==
    << "REGISTER_PROPERTY", "CREATE_AGREEMENT", "UPDATE_AGREEMENT",
       "PROCESS_PAYMENT", "ACCESS_PAYMENT_HISTORY", "VERIFY_COMPLIANCE",
       "TRANSFER_OWNERSHIP", "TERMINATE_AGREEMENT", "UPDATE_SYSTEM" >>

RentUnit == 10
DepositUnit == 20
PayAmounts == {RentUnit \div 2, RentUnit, 2 * RentUnit}
DepositAmounts == {DepositUnit \div 2, DepositUnit}
ReleaseAmounts == {DepositUnit \div 2, DepositUnit, DepositUnit + DepositUnit \div 2}
StatusInputs == 0 .. (StatusDisputed + 1)
\* clock steps: three days and thirteen hours, and six days
ShortStep == 3 * SECONDS_PER_DAY + 13 * 3600
LongStep == 6 * SECONDS_PER_DAY
AdvanceSteps == {ShortStep}
PropertyIdInputs == 1 .. MaxProperties
AgreementIdInputs == 1 .. MaxAgreements
\* the agreement ids the PaymentManager's mappings are followed for: one more
\* than the agreements most specifications create
LedgerIds == 1 .. (MaxAgreements + 1)

VARIABLES
    now,                \* block.timestamp
    verifierCore,       \* ComplianceVerifier.rentalCore (constructor argument)
    roles,              \* AccessControl._roles: set of <<role, account>>
    permissions,        \* AccessControlManager._permissions: set of <<permission, account>>
    userPermissions,    \* AccessControlManager._userPermissions
    paused,             \* RentalCore's Pausable flag
    propertyIds,        \* RentalCore._propertyIds
    agreementIds,       \* RentalCore._agreementIds
    properties,         \* RentalCore._properties
    agreements,         \* RentalCore._agreements
    userProperties,     \* RentalCore._userProperties
    userAgreements,     \* RentalCore._userAgreements
    currentParameters,  \* ComplianceVerifier._currentParameters
    complianceChecks,   \* ComplianceVerifier._complianceChecks
    authorizedVerifiers, \* ComplianceVerifier._authorizedVerifiers: the addresses mapped to true
    paymentHistory,     \* PaymentManager._paymentHistory
    depositBalances,    \* PaymentManager._depositBalances
    lastPaymentDate,    \* PaymentManager._lastPaymentDate
    outstandingBalance, \* PaymentManager._outstandingBalance
    pmBalance,          \* address(PaymentManager).balance
    depositReleased,    \* per agreement, the sum of the DepositReleased events
    lateFeesCharged,    \* per agreement, the LateFeeCharged events since the last
                        \* RentPaymentProcessed event
    last                \* the last call: operation, caller, arguments, outcome

coreVars == << paused, propertyIds, agreementIds, properties, agreements,
               userProperties, userAgreements >>
accessVars == << roles, permissions, userPermissions >>
complianceVars == << currentParameters, complianceChecks, authorizedVerifiers >>
paymentVars == << paymentHistory, depositBalances, lastPaymentDate,
                  outstandingBalance, pmBalance, depositReleased,
                  lateFeesCharged >>
vars == << now, verifierCore, roles, permissions, userPermissions, paused,
           propertyIds, agreementIds, properties, agreements, userProperties,
           userAgreements, currentParameters, complianceChecks,
           authorizedVerifiers, paymentHistory, depositBalances, lastPaymentDate, outstandingBalance, pmBalance,
           depositReleased, lateFeesCharged, last >>

Call(op, caller, args, result, ret) ==
    [op |-> op, caller |-> caller, args |-> args, result |-> result, ret |-> ret]

Ok == "ok"

(***************************************************************************)
(* AccessControlManager                                                    *)
(***************************************************************************)
hasRole(role, account) == <<role, account>> \in roles

hasPermission(account, permission) == <<permission, account>> \in permissions

RECURSIVE FilterSeq(_, _)
FilterSeq(s, keep) ==
    IF s = << >> THEN << >>
    ELSE IF Head(s) \in keep THEN << Head(s) >> \o FilterSeq(Tail(s), keep)
    ELSE FilterSeq(Tail(s), keep)

\* the array rebuilt from the nine predefined permissions the account holds
updateUserPermissions(perms, account) ==
    FilterSeq(allPermissions,
              {allPermissions[i] : i \in {k \in DOMAIN allPermissions :
                                            <<allPermissions[k], account>> \in perms}})

grantAllPermissions(perms, account) ==
    perms \cup {<<allPermissions[i], account>> : i \in DOMAIN allPermissions}

\* the first occurrence is overwritten by the last element, which is popped
removePermission(s, permission) ==
    IF \E i \in DOMAIN s : s[i] = permission
    THEN LET i == CHOOSE k \in DOMAIN s :
                      /\ s[k] = permission
                      /\ \A j \in 1 .. (k - 1) : s[j] # permission
             moved == [s EXCEPT ![i] = s[Len(s)]]
         IN  SubSeq(moved, 1, Len(s) - 1)
    ELSE s

GrantInputs == {<<"Landlord", REGISTER_PROPERTY>>, <<"Tenant", UPDATE_AGREEMENT>>}

\* grantPermission, explored while the account's list is shorter than maxGrants
GrantPermissionUpTo(caller, account, permission, maxGrants) ==
    LET err == IF account = Zero THEN "Invalid address"
               ELSE IF ~hasRole(SYSTEM_ADMIN, caller) THEN "Not authorized"
               ELSE Ok
    IN
    /\ err = Ok => Len(userPermissions[account]) < maxGrants
    /\ IF err # Ok
       THEN /\ UNCHANGED accessVars
            /\ last' = Call("grantPermission", caller, <<account, permission>>, err, 0)
       ELSE /\ permissions' = permissions \cup {<<permission, account>>}
            /\ userPermissions' =
                   [userPermissions EXCEPT ![account] = Append(@, permission)]
            /\ UNCHANGED roles
            /\ last' = Call("grantPermission", caller, <<account, permission>>, Ok, 1)
    /\ UNCHANGED << now, verifierCore, coreVars, complianceVars, paymentVars >>

GrantPermission(caller, account, permission) ==
    GrantPermissionUpTo(caller, account, permission, MaxGrants)

RevokePermission(caller, account, permission) ==
    LET err == IF account = Zero THEN "Invalid address"
               ELSE IF ~hasRole(SYSTEM_ADMIN, caller) THEN "Not authorized"
               ELSE Ok
    IN
    /\ IF err # Ok
       THEN /\ UNCHANGED accessVars
            /\ last' = Call("revokePermission", caller, <<account, permission>>, err, 0)
       ELSE /\ permissions' = permissions \ {<<permission, account>>}
            /\ userPermissions' =
                   [userPermissions EXCEPT ![account] = removePermission(@, permission)]
            /\ UNCHANGED roles
            /\ last' = Call("revokePermission", caller, <<account, permission>>, Ok, 1)
    /\ UNCHANGED << now, verifierCore, coreVars, complianceVars, paymentVars >>

BusinessRoles == {LANDLORD, TENANT, BROKER, PROPERTY_MANAGER, LEGAL_VERIFIER}

\* mutant: SYSTEM_ADMIN administers every role, itself included
getRoleAdminFlat(role) == SYSTEM_ADMIN

\* AccessControl.getRoleAdmin after the constructor's _setRoleAdmin calls
getRoleAdmin(role) ==
    IF role \in BusinessRoles THEN SYSTEM_ADMIN ELSE DEFAULT_ADMIN_ROLE

\* mutant: a tenant is not given TERMINATE_AGREEMENT
setupRolePermissionsTenantStays(perms, account, role) ==
    IF role = SYSTEM_ADMIN THEN grantAllPermissions(perms, account)
    ELSE perms \cup
         { <<p, account>> : p \in
             CASE role = LANDLORD ->
                    {REGISTER_PROPERTY, CREATE_AGREEMENT, ACCESS_PAYMENT_HISTORY,
                     TRANSFER_OWNERSHIP, TERMINATE_AGREEMENT}
               [] role = TENANT -> {PROCESS_PAYMENT, ACCESS_PAYMENT_HISTORY}
               [] role = BROKER ->
                    {REGISTER_PROPERTY, CREATE_AGREEMENT, ACCESS_PAYMENT_HISTORY}
               [] role = PROPERTY_MANAGER ->
                    {UPDATE_AGREEMENT, PROCESS_PAYMENT, ACCESS_PAYMENT_HISTORY}
               [] role = LEGAL_VERIFIER -> {VERIFY_COMPLIANCE}
               [] OTHER -> {} }

\* _setupRolePermissions: the _permissions mapping it leaves
setupRolePermissions(perms, account, role) ==
    IF role = SYSTEM_ADMIN THEN grantAllPermissions(perms, account)
    ELSE perms \cup
         { <<p, account>> : p \in
             CASE role = LANDLORD ->
                    {REGISTER_PROPERTY, CREATE_AGREEMENT, ACCESS_PAYMENT_HISTORY,
                     TRANSFER_OWNERSHIP, TERMINATE_AGREEMENT}
               [] role = TENANT ->
                    {PROCESS_PAYMENT, ACCESS_PAYMENT_HISTORY, TERMINATE_AGREEMENT}
               [] role = BROKER ->
                    {REGISTER_PROPERTY, CREATE_AGREEMENT, ACCESS_PAYMENT_HISTORY}
               [] role = PROPERTY_MANAGER ->
                    {UPDATE_AGREEMENT, PROCESS_PAYMENT, ACCESS_PAYMENT_HISTORY}
               [] role = LEGAL_VERIFIER -> {VERIFY_COMPLIANCE}
               [] OTHER -> {} }

\* _revokeRolePermissions: every permission listed for the account is cleared
revokeRolePermissions(perms, account) ==
    perms \ { <<userPermissions[account][i], account>> :
                i \in DOMAIN userPermissions[account] }

\* the first failing require of assignRole and of revokeRole
assignRoleRequire(caller, account, role) ==
    IF account = Zero THEN "Invalid address"
    ELSE IF ~hasRole(getRoleAdmin(role), caller) THEN "Not authorized"
    ELSE Ok

AssignRole(caller, account, role) ==
    LET err == assignRoleRequire(caller, account, role)
        granted == setupRolePermissions(permissions, account, role)
    IN
    /\ IF err # Ok
       THEN /\ UNCHANGED accessVars
            /\ last' = Call("assignRole", caller, <<account, role>>, err, 0)
       ELSE /\ roles' = roles \cup {<<role, account>>}
            /\ permissions' = granted
            /\ userPermissions' =
                   [userPermissions EXCEPT ![account] =
                        updateUserPermissions(granted, account)]
            /\ last' = Call("assignRole", caller, <<account, role>>, Ok, 1)
    /\ UNCHANGED << now, verifierCore, coreVars, complianceVars, paymentVars >>

RevokeRole(caller, account, role) ==
    LET err == assignRoleRequire(caller, account, role)
    IN
    /\ IF err # Ok
       THEN /\ UNCHANGED accessVars
            /\ last' = Call("revokeRole", caller, <<account, role>>, err, 0)
       ELSE /\ roles' = roles \ {<<role, account>>}
            /\ permissions' = revokeRolePermissions(permissions, account)
            /\ userPermissions' = [userPermissions EXCEPT ![account] = << >>]
            /\ last' = Call("revokeRole", caller, <<account, role>>, Ok, 1)
    /\ UNCHANGED << now, verifierCore, coreVars, complianceVars, paymentVars >>

\* the grantRole(bytes32, address) inherited from AccessControl, called from
\* outside: the role is granted and no permission is set up
GrantRole(caller, role, account) ==
    /\ IF ~hasRole(getRoleAdmin(role), caller)
       THEN /\ UNCHANGED accessVars
            /\ last' = Call("grantRole", caller, <<account, role>>,
                            "AccessControl: missing role", 0)
       ELSE /\ roles' = roles \cup {<<role, account>>}
            /\ UNCHANGED << permissions, userPermissions >>
            /\ last' = Call("grantRole", caller, <<account, role>>, Ok, 0)
    /\ UNCHANGED << now, verifierCore, coreVars, complianceVars, paymentVars >>

\* getPermissions
getPermissions(account) == userPermissions[account]

(***************************************************************************)
(* RentalCore: reads                                                       *)
(***************************************************************************)
propertyExists(propertyId) ==
    /\ propertyId \in DOMAIN properties
    /\ properties[propertyId].owner # Zero

agreementExists(agreementId) ==
    /\ agreementId \in DOMAIN agreements
    /\ agreements[agreementId].propertyId # 0

\* the tuple getAgreementDetails returns, or the revert of its modifier
getAgreementDetails(agreementId) ==
    IF agreementExists(agreementId)
    THEN [result |-> Ok, details |-> agreements[agreementId]]
    ELSE [result |-> "Agreement doesn't exist", details |-> << >>]

getPropertyDetails(propertyId) ==
    IF propertyExists(propertyId)
    THEN [result |-> Ok,
          owner |-> properties[propertyId].owner,
          dataHash |-> properties[propertyId].dataHash,
          isActive |-> properties[propertyId].isActive]
    ELSE [result |-> "Property doesn't exist"]

(***************************************************************************)
(* ComplianceVerifier                                                      *)
(***************************************************************************)
Linked == "RentalCore"
Placeholder == "Placeholder"

\* What an IRentalCore other than RentalCore may answer to getAgreementDetails
PlaceholderAnswers ==
    {[result |-> "revert", details |-> << >>]} \cup
    {[result |-> Ok, details |-> [propertyId |-> 1, landlord |-> l, tenant |-> "Tenant"]] :
        l \in {"Landlord", Zero}} \cup
    {[result |-> Ok, details |-> [propertyId |-> 1, landlord |-> "Landlord", tenant |-> Zero]]}

\* uint256(uint160(address)): the entity id of a party
AddressBase == 1000
addressId(a) ==
    AddressBase + (CASE a = "Admin" -> 1 [] a = "Landlord" -> 2 [] a = "Tenant" -> 3
                     [] OTHER -> 4)

Put(f, k, v) == [x \in (DOMAIN f) \cup {k} |-> IF x = k THEN v ELSE f[x]]

\* mutant: a result already recorded for the entity is kept, not overwritten
recordComplianceCheckOnce(checks, entityId, entityType, passed, detailsHash, sender) ==
    IF <<entityId, entityType>> \in DOMAIN checks THEN checks
    ELSE [x \in (DOMAIN checks) \cup {<<entityId, entityType>>} |->
             IF x = <<entityId, entityType>>
             THEN [passed |-> passed, timestamp |-> now,
                   detailsHash |-> detailsHash, verifier |-> sender]
             ELSE checks[x]]

recordComplianceCheck(checks, entityId, entityType, passed, detailsHash, sender) ==
    Put(checks, <<entityId, entityType>>,
        [passed |-> passed, timestamp |-> now,
         detailsHash |-> detailsHash, verifier |-> sender])

partyHash(partyAddress, partyType) == <<"party", partyAddress, partyType, now>>

propertyHash(propertyId) == <<"property", propertyId, now>>

\* _verifyPartyCompliance: the check always passes; a zero address reverts
verifyPartyCompliance(checks, partyAddress, partyType, sender) ==
    IF partyAddress = Zero
    THEN [result |-> "Invalid party address", passed |-> FALSE,
          detailsHash |-> ZeroHash, checks |-> checks]
    ELSE [result |-> Ok, passed |-> TRUE,
          detailsHash |-> partyHash(partyAddress, partyType),
          checks |-> recordComplianceCheck(checks, addressId(partyAddress), partyType, TRUE,
                                           partyHash(partyAddress, partyType), sender)]

verifyPropertyCompliance(checks, propertyId, sender) ==
    [result |-> Ok, passed |-> TRUE, detailsHash |-> propertyHash(propertyId),
     checks |-> recordComplianceCheck(checks, propertyId, PROPERTY_TYPE, TRUE,
                                      propertyHash(propertyId), sender)]

\* mutant: the verifier answers without asking whether parameters are set
verifyContractComplianceUnconfigured(agreementId, sender, answer) ==
      LET got == IF verifierCore = Linked THEN getAgreementDetails(agreementId)
                 ELSE answer
      IN IF got.result # Ok
         THEN [result |-> got.result, passed |-> FALSE, checks |-> complianceChecks]
         ELSE
           LET l == verifyPartyCompliance(complianceChecks, got.details.landlord,
                                          LANDLORD_TYPE, sender)
           IN IF l.result # Ok
              THEN [result |-> l.result, passed |-> FALSE, checks |-> complianceChecks]
              ELSE
                LET t == verifyPartyCompliance(l.checks, got.details.tenant,
                                               TENANT_TYPE, sender)
                IN IF t.result # Ok
                   THEN [result |-> t.result, passed |-> FALSE, checks |-> l.checks]
                   ELSE
                     LET pr == verifyPropertyCompliance(t.checks,
                                                        got.details.propertyId, sender)
                         allCompliant == l.passed /\ t.passed /\ pr.passed
                         finalHash == << l.detailsHash, t.detailsHash, pr.detailsHash >>
                     IN [result |-> Ok, passed |-> allCompliant,
                         checks |-> recordComplianceCheck(pr.checks, agreementId,
                                        AGREEMENT_TYPE, allCompliant, finalHash, sender)]

\* verifyContractCompliance(agreementId) called by sender; `answer` is what a
\* placeholder IRentalCore returns, unused when the verifier reads RentalCore.
\* `checks` are the records as written when the call returns or reverts.
verifyContractCompliance(agreementId, sender, answer) ==
    IF ~currentParameters.active
    THEN [result |-> "Compliance parameters not set", passed |-> FALSE,
          checks |-> complianceChecks]
    ELSE
      LET got == IF verifierCore = Linked THEN getAgreementDetails(agreementId)
                 ELSE answer
      IN IF got.result # Ok
         THEN [result |-> got.result, passed |-> FALSE, checks |-> complianceChecks]
         ELSE
           LET l == verifyPartyCompliance(complianceChecks, got.details.landlord,
                                          LANDLORD_TYPE, sender)
           IN IF l.result # Ok
              THEN [result |-> l.result, passed |-> FALSE, checks |-> complianceChecks]
              ELSE
                LET t == verifyPartyCompliance(l.checks, got.details.tenant,
                                               TENANT_TYPE, sender)
                IN IF t.result # Ok
                   THEN [result |-> t.result, passed |-> FALSE, checks |-> l.checks]
                   ELSE
                     LET pr == verifyPropertyCompliance(t.checks,
                                                        got.details.propertyId, sender)
                         allCompliant == l.passed /\ t.passed /\ pr.passed
                         finalHash == << l.detailsHash, t.detailsHash, pr.detailsHash >>
                     IN [result |-> Ok, passed |-> allCompliant,
                         checks |-> recordComplianceCheck(pr.checks, agreementId,
                                        AGREEMENT_TYPE, allCompliant, finalHash, sender)]

\* mutant: what the verifier wrote before it reverted stays written
complianceChecksKeptOnRevert(err, v) ==
    IF err \in {Ok, "Invalid party address"} THEN v.checks ELSE complianceChecks

\* the compliance records a call leaves behind: those the verifier wrote when
\* the call goes through, the previous ones when it reverts
complianceChecksAfter(err, v) ==
    IF err = Ok THEN v.checks ELSE complianceChecks

\* verifyContractCompliance called directly
VerifyContractCompliance(caller, agreementId, answer) ==
    LET v == verifyContractCompliance(agreementId, caller, answer)
    IN
    /\ complianceChecks' = complianceChecksAfter(v.result, v)
    /\ last' = Call("verifyContractCompliance", caller, [agreementId |-> agreementId],
                    v.result, IF v.result = Ok /\ v.passed THEN 1 ELSE 0)
    /\ UNCHANGED << now, verifierCore, accessVars, coreVars, paymentVars,
                    currentParameters, authorizedVerifiers >>

ParameterInputs == {"P1", ZeroHash}

UpdateComplianceParameters(caller, parametersHash) ==
    /\ IF ~hasRole(SYSTEM_ADMIN, caller)
       THEN /\ UNCHANGED complianceVars
            /\ last' = Call("updateComplianceParameters", caller, parametersHash,
                            "Not admin", 0)
       ELSE IF parametersHash = ZeroHash
       THEN /\ UNCHANGED complianceVars
            /\ last' = Call("updateComplianceParameters", caller, parametersHash,
                            "Invalid parameters", 0)
       ELSE /\ currentParameters' = [parametersHash |-> parametersHash,
                                     lastUpdateTime |-> now, active |-> TRUE]
            /\ UNCHANGED << complianceChecks, authorizedVerifiers >>
            /\ last' = Call("updateComplianceParameters", caller, parametersHash, Ok, 0)
    /\ UNCHANGED << now, verifierCore, accessVars, coreVars, paymentVars >>

\* verifyLandlordCompliance and verifyTenantCompliance called directly; the
\* call returns (passed, detailsHash)
VerifyPartyCompliance(op, caller, partyAddress, partyType) ==
    LET v == verifyPartyCompliance(complianceChecks, partyAddress, partyType, caller)
    IN
    /\ complianceChecks' = complianceChecksAfter(v.result, v)
    /\ last' = Call(op, caller, partyAddress, v.result,
                    IF v.result = Ok THEN << v.passed, v.detailsHash >> ELSE << >>)
    /\ UNCHANGED << now, verifierCore, accessVars, coreVars, paymentVars,
                    currentParameters, authorizedVerifiers >>

VerifyLandlordCompliance(caller, landlordAddress) ==
    VerifyPartyCompliance("verifyLandlordCompliance", caller, landlordAddress,
                          LANDLORD_TYPE)

VerifyTenantCompliance(caller, tenantAddress) ==
    VerifyPartyCompliance("verifyTenantCompliance", caller, tenantAddress, TENANT_TYPE)

\* the view getComplianceStatus: a pair never written reads as the zero struct
getComplianceStatus(entityId, entityType) ==
    IF ~(entityType <= TENANT_TYPE)
    THEN [result |-> "Invalid entity type"]
    ELSE IF <<entityId, entityType>> \in DOMAIN complianceChecks
    THEN [result |-> Ok,
          passed |-> complianceChecks[<<entityId, entityType>>].passed,
          lastCheckTime |-> complianceChecks[<<entityId, entityType>>].timestamp,
          detailsHash |-> complianceChecks[<<entityId, entityType>>].detailsHash]
    ELSE [result |-> Ok, passed |-> FALSE, lastCheckTime |-> 0,
          detailsHash |-> ZeroHash]

isAuthorizedVerifier(verifier) == verifier \in authorizedVerifiers

AuthorizeVerifier(caller, verifier) ==
    LET err == IF ~hasRole(SYSTEM_ADMIN, caller) THEN "Not admin"
               ELSE IF verifier = Zero THEN "Invalid verifier address"
               ELSE Ok
    IN
    /\ authorizedVerifiers' = IF err = Ok THEN authorizedVerifiers \cup {verifier}
                              ELSE authorizedVerifiers
    /\ last' = Call("authorizeVerifier", caller, verifier, err, 0)
    /\ UNCHANGED << now, verifierCore, accessVars, coreVars, paymentVars,
                    currentParameters, complianceChecks >>

RevokeVerifier(caller, verifier) ==
    LET err == IF ~hasRole(SYSTEM_ADMIN, caller) THEN "Not admin"
               ELSE IF ~isAuthorizedVerifier(verifier) THEN "Not authorized verifier"
               ELSE Ok
    IN
    /\ authorizedVerifiers' = IF err = Ok THEN authorizedVerifiers \ {verifier}
                              ELSE authorizedVerifiers
    /\ last' = Call("revokeVerifier", caller, verifier, err, 0)
    /\ UNCHANGED << now, verifierCore, accessVars, coreVars, paymentVars,
                    currentParameters, complianceChecks >>

(***************************************************************************)
(* RentalCore: mutating calls                                              *)
(***************************************************************************)
DataHashInputs == {"D1", ZeroHash}

\* mutant: the counter is read without having been incremented
incrementStuck(counter) == counter

\* Counters.increment followed by current
increment(counter) == counter + 1

\* mutant: the permission is not asked for
registerPropertyRequireNoPermission(caller, dataHash) ==
    IF paused THEN "Pausable: paused"
    ELSE IF dataHash = ZeroHash THEN "Invalid property data"
    ELSE Ok

\* the first failing require of registerProperty
registerPropertyRequire(caller, dataHash) ==
    IF paused THEN "Pausable: paused"
    ELSE IF dataHash = ZeroHash THEN "Invalid property data"
    ELSE IF ~hasPermission(caller, REGISTER_PROPERTY) THEN "No permission"
    ELSE Ok

\* registerProperty, explored up to maxProperties properties
RegisterPropertyUpTo(caller, dataHash, maxProperties) ==
    LET err == registerPropertyRequire(caller, dataHash)
        newPropertyId == increment(propertyIds)
    IN
    /\ err = Ok => propertyIds < maxProperties
    /\ IF err # Ok
       THEN /\ UNCHANGED coreVars
            /\ last' = Call("registerProperty", caller, dataHash, err, 0)
       ELSE /\ propertyIds' = newPropertyId
            /\ properties' = Put(properties, newPropertyId,
                                 [owner |-> caller, dataHash |-> dataHash,
                                  isActive |-> TRUE, agreementHistory |-> << >>])
            /\ userProperties' = [userProperties EXCEPT ![caller] = Append(@, newPropertyId)]
            /\ UNCHANGED << paused, agreementIds, agreements, userAgreements >>
            /\ last' = Call("registerProperty", caller, dataHash, Ok, newPropertyId)
    /\ UNCHANGED << now, verifierCore, accessVars, complianceVars, paymentVars >>

RegisterProperty(caller, dataHash) ==
    RegisterPropertyUpTo(caller, dataHash, MaxProperties)

\* The argument tuples createAgreement is tried with at time t: the valid one
\* and the ones that break one precondition each
ValidTerms(propertyId, t) ==
    [propertyId |-> propertyId, tenant |-> "Tenant", terms |-> "T1",
     startDate |-> t + SECONDS_PER_DAY,
     endDate |-> t + SECONDS_PER_DAY + DaysPerMonth * SECONDS_PER_DAY,
     rentAmount |-> RentUnit, depositAmount |-> DepositUnit]

CreateInputs(t) ==
    UNION {
      { ValidTerms(p, t),
        [ValidTerms(p, t) EXCEPT !.tenant = Zero],
        [ValidTerms(p, t) EXCEPT !.terms = ZeroHash],
        [ValidTerms(p, t) EXCEPT !.startDate = t],
        [ValidTerms(p, t) EXCEPT !.endDate = t + SECONDS_PER_DAY],
        [ValidTerms(p, t) EXCEPT !.rentAmount = 0],
        [ValidTerms(p, t) EXCEPT !.depositAmount = 0] } : p \in PropertyIdInputs }

\* the first require of createAgreement that fails before the compliance call
createAgreementRequire(caller, a) ==
    IF paused THEN "Pausable: paused"
    ELSE IF ~propertyExists(a.propertyId) THEN "Property doesn't exist"
    ELSE IF a.tenant = Zero THEN "Invalid tenant address"
    ELSE IF a.terms = ZeroHash THEN "Invalid terms"
    ELSE IF ~(a.startDate > now) THEN "Invalid start date"
    ELSE IF ~(a.endDate > a.startDate) THEN "Invalid end date"
    ELSE IF ~(a.rentAmount > 0) THEN "Invalid rent amount"
    ELSE IF ~(a.depositAmount > 0) THEN "Invalid deposit amount"
    ELSE IF properties[a.propertyId].owner # caller THEN "Not property owner"
    ELSE IF ~properties[a.propertyId].isActive THEN "Property not active"
    ELSE Ok

\* mutant: the new agreement id is put in front of the property's history
pushAgreementIdInFront(agreementHistory, newAgreementId) ==
    << newAgreementId >> \o agreementHistory

\* _properties[propertyId].agreementHistory.push(newAgreementId)
pushAgreementId(agreementHistory, newAgreementId) ==
    Append(agreementHistory, newAgreementId)

\* createAgreement, explored while fewer than maxAgreements agreements exist
CreateAgreementUpTo(caller, a, answer, maxAgreements) ==
    LET pre == createAgreementRequire(caller, a)
        \* compliance is verified on the property id
        v == verifyContractCompliance(a.propertyId, "RentalCore", answer)
        err == IF pre # Ok THEN pre
               ELSE IF v.result # Ok THEN v.result
               ELSE IF ~v.passed THEN "Failed compliance check"
               ELSE Ok
        newAgreementId == agreementIds + 1
    IN
    /\ err = Ok => agreementIds < maxAgreements
    /\ complianceChecks' = complianceChecksAfter(err, v)
    /\ IF err # Ok
       THEN /\ UNCHANGED << coreVars, currentParameters, authorizedVerifiers >>
            /\ last' = Call("createAgreement", caller, a, err, 0)
       ELSE /\ agreementIds' = newAgreementId
            /\ agreements' = Put(agreements, newAgreementId,
                   [propertyId |-> a.propertyId, landlord |-> caller,
                    tenant |-> a.tenant, startDate |-> a.startDate,
                    endDate |-> a.endDate, rentAmount |-> a.rentAmount,
                    depositAmount |-> a.depositAmount, status |-> Pending,
                    termsHash |-> a.terms, amendmentHashes |-> << >>])
            /\ properties' = [properties EXCEPT ![a.propertyId].agreementHistory =
                                  pushAgreementId(@, newAgreementId)]
            /\ userAgreements' =
                   LET u1 == [userAgreements EXCEPT ![caller] = Append(@, newAgreementId)]
                   IN  [u1 EXCEPT ![a.tenant] = Append(@, newAgreementId)]
            /\ UNCHANGED << paused, propertyIds, userProperties, currentParameters,
                            authorizedVerifiers >>
            /\ last' = Call("createAgreement", caller, a, Ok, newAgreementId)
    /\ UNCHANGED << now, verifierCore, accessVars, paymentVars >>

CreateAgreement(caller, a, answer) ==
    CreateAgreementUpTo(caller, a, answer, MaxAgreements)

\* RentalCore called with the selector of transferOwnership(uint256,address):
\* the contract has no function of that name and no fallback, so the call
\* reverts without a reason and changes nothing
TransferOwnership(caller, propertyId, newOwner) ==
    /\ last' = Call("transferOwnership", caller,
                    [propertyId |-> propertyId, newOwner |-> newOwner], "revert", 0)
    /\ UNCHANGED << now, verifierCore, accessVars, coreVars, complianceVars,
                    paymentVars >>

\* mutant: the require on the Active status is missing
terminateAgreementRequireNoState(caller, agreementId) ==
    IF paused THEN "Pausable: paused"
    ELSE IF ~agreementExists(agreementId) THEN "Agreement doesn't exist"
    ELSE IF ~(agreements[agreementId].landlord = caller
              \/ agreements[agreementId].tenant = caller) THEN "Not agreement party"
    ELSE Ok

\* mutant: termination is accepted from Pending as well as from Active
terminateAgreementRequireFromPending(caller, agreementId) ==
    IF paused THEN "Pausable: paused"
    ELSE IF ~agreementExists(agreementId) THEN "Agreement doesn't exist"
    ELSE IF ~(agreements[agreementId].landlord = caller
              \/ agreements[agreementId].tenant = caller) THEN "Not agreement party"
    ELSE IF agreements[agreementId].status \notin {Pending, Active}
    THEN "Agreement not active"
    ELSE Ok

\* mutant: a system administrator passes for a party of every agreement
terminateAgreementRequireAdminParty(caller, agreementId) ==
    IF paused THEN "Pausable: paused"
    ELSE IF ~agreementExists(agreementId) THEN "Agreement doesn't exist"
    ELSE IF ~(agreements[agreementId].landlord = caller
              \/ agreements[agreementId].tenant = caller
              \/ hasRole(SYSTEM_ADMIN, caller)) THEN "Not agreement party"
    ELSE IF agreements[agreementId].status # Active THEN "Agreement not active"
    ELSE Ok

terminateAgreementRequire(caller, agreementId) ==
    IF paused THEN "Pausable: paused"
    ELSE IF ~agreementExists(agreementId) THEN "Agreement doesn't exist"
    ELSE IF ~(agreements[agreementId].landlord = caller
              \/ agreements[agreementId].tenant = caller) THEN "Not agreement party"
    ELSE IF agreements[agreementId].status # Active THEN "Agreement not active"
    ELSE Ok

TerminateAgreement(caller, agreementId, answer) ==
    LET pre == terminateAgreementRequire(caller, agreementId)
        v == verifyContractCompliance(agreementId, "RentalCore", answer)
        err == IF pre # Ok THEN pre
               ELSE IF v.result # Ok THEN v.result
               ELSE IF ~v.passed THEN "Failed compliance check"
               ELSE Ok
    IN
    /\ complianceChecks' = complianceChecksAfter(err, v)
    /\ IF err # Ok
       THEN /\ UNCHANGED << coreVars, currentParameters, authorizedVerifiers >>
            /\ last' = Call("terminateAgreement", caller, [agreementId |-> agreementId], err, 0)
       ELSE /\ agreements' = [agreements EXCEPT ![agreementId].status = Terminated]
            /\ UNCHANGED << paused, propertyIds, agreementIds, properties,
                            userProperties, userAgreements, currentParameters,
                            authorizedVerifiers >>
            /\ last' = Call("terminateAgreement", caller, [agreementId |-> agreementId], Ok, 0)
    /\ UNCHANGED << now, verifierCore, accessVars, paymentVars >>

\* mutant: a transition table that keeps terminal statuses closed
updateAgreementStatusRequireGuarded(caller, agreementId, status) ==
    IF paused THEN "Pausable: paused"
    ELSE IF ~agreementExists(agreementId) THEN "Agreement doesn't exist"
    ELSE IF ~hasPermission(caller, UPDATE_AGREEMENT) THEN "No permission"
    ELSE IF ~(status <= StatusDisputed) THEN "Invalid status"
    ELSE IF agreements[agreementId].status \in {Terminated, Expired, Disputed}
    THEN "Invalid transition"
    ELSE Ok

\* mutant: the permission check is missing
updateAgreementStatusRequireNoPermission(caller, agreementId, status) ==
    IF paused THEN "Pausable: paused"
    ELSE IF ~agreementExists(agreementId) THEN "Agreement doesn't exist"
    ELSE IF ~(status <= StatusDisputed) THEN "Invalid status"
    ELSE Ok

\* mutant: the override is not stopped by the pause
updateAgreementStatusRequireWhilePaused(caller, agreementId, status) ==
    IF ~agreementExists(agreementId) THEN "Agreement doesn't exist"
    ELSE IF ~hasPermission(caller, UPDATE_AGREEMENT) THEN "No permission"
    ELSE IF ~(status <= StatusDisputed) THEN "Invalid status"
    ELSE Ok

updateAgreementStatusRequire(caller, agreementId, status) ==
    IF paused THEN "Pausable: paused"
    ELSE IF ~agreementExists(agreementId) THEN "Agreement doesn't exist"
    ELSE IF ~hasPermission(caller, UPDATE_AGREEMENT) THEN "No permission"
    ELSE IF ~(status <= StatusDisputed) THEN "Invalid status"
    ELSE Ok

UpdateAgreementStatus(caller, agreementId, status) ==
    LET err == updateAgreementStatusRequire(caller, agreementId, status)
    IN
    /\ IF err # Ok
       THEN /\ UNCHANGED coreVars
            /\ last' = Call("updateAgreementStatus", caller,
                            [agreementId |-> agreementId, status |-> status], err, 0)
       ELSE /\ agreements' = [agreements EXCEPT ![agreementId].status = status]
            /\ UNCHANGED << paused, propertyIds, agreementIds, properties,
                            userProperties, userAgreements >>
            /\ last' = Call("updateAgreementStatus", caller,
                            [agreementId |-> agreementId, status |-> status], Ok, 0)
    /\ UNCHANGED << now, verifierCore, accessVars, complianceVars, paymentVars >>

EmergencyShutdown(caller) ==
    LET err == IF ~hasRole(SYSTEM_ADMIN, caller) THEN "Not system admin"
               ELSE IF paused THEN "Pausable: paused"
               ELSE Ok
    IN
    /\ paused' = (IF err = Ok THEN TRUE ELSE paused)
    /\ last' = Call("emergencyShutdown", caller, << >>, err, 0)
    /\ UNCHANGED << now, verifierCore, accessVars, complianceVars, paymentVars,
                    propertyIds, agreementIds, properties, agreements,
                    userProperties, userAgreements >>

ResumeOperation(caller) ==
    LET err == IF ~hasRole(SYSTEM_ADMIN, caller) THEN "Not system admin"
               ELSE IF ~paused THEN "Pausable: not paused"
               ELSE Ok
    IN
    /\ paused' = (IF err = Ok THEN FALSE ELSE paused)
    /\ last' = Call("resumeOperation", caller, << >>, err, 0)
    /\ UNCHANGED << now, verifierCore, accessVars, complianceVars, paymentVars,
                    propertyIds, agreementIds, properties, agreements,
                    userProperties, userAgreements >>

(***************************************************************************)
(* PaymentManager                                                          *)
(***************************************************************************)
\* mutant: the modifier checks existence only
onlyValidAgreementAnyStatus(agreementId) ==
    getAgreementDetails(agreementId).result

\* modifier onlyValidAgreement
\* mutant: an agreement whose endDate has passed no longer takes payments
onlyValidAgreementUnexpired(agreementId) ==
    LET got == getAgreementDetails(agreementId)
    IN IF got.result # Ok THEN got.result
       ELSE IF got.details.status # Active \/ now > got.details.endDate
       THEN "Agreement not active"
       ELSE Ok

onlyValidAgreement(agreementId) ==
    LET got == getAgreementDetails(agreementId)
    IN IF got.result # Ok THEN got.result
       ELSE IF got.details.status # Active THEN "Agreement not active"
       ELSE Ok

\* mutant: the tenant of an agreement passes for authorized
onlyAuthorizedOrTenant(caller) ==
    \/ hasRole(PAYMENT_MANAGER, caller)
    \/ hasRole(SYSTEM_ADMIN, caller)
    \/ \E id \in DOMAIN agreements : agreements[id].tenant = caller

\* modifier onlyAuthorized
onlyAuthorized(caller) ==
    hasRole(PAYMENT_MANAGER, caller) \/ hasRole(SYSTEM_ADMIN, caller)

RECURSIVE totalPaid(_)
totalPaid(records) ==
    IF records = << >> THEN 0
    ELSE (IF Head(records).paymentType = Rent /\ Head(records).confirmed
          THEN Head(records).amount ELSE 0) + totalPaid(Tail(records))

\* mutant: the month that is running is not counted as due
updateOutstandingBalanceElapsedOnly(agreementId, records) ==
    LET got == getAgreementDetails(agreementId)
    IN IF got.result # Ok THEN [result |-> got.result, balance |-> 0]
       ELSE IF got.details.startDate > now
       THEN [result |-> Underflow, balance |-> 0]
       ELSE
         LET monthsSinceStart ==
                 (now - got.details.startDate) \div (DaysPerMonth * SECONDS_PER_DAY)
             expectedTotal == got.details.rentAmount * monthsSinceStart
             paid == totalPaid(records)
         IN [result |-> Ok,
             balance |-> IF expectedTotal > paid THEN expectedTotal - paid ELSE 0]

\* _updateOutstandingBalance over the given records at the current time:
\* SafeMath's sub reverts while the start date lies ahead
updateOutstandingBalance(agreementId, records) ==
    LET got == getAgreementDetails(agreementId)
    IN IF got.result # Ok THEN [result |-> got.result, balance |-> 0]
       ELSE IF got.details.startDate > now
       THEN [result |-> Underflow, balance |-> 0]
       ELSE
         LET monthsSinceStart ==
                 (now - got.details.startDate) \div (DaysPerMonth * SECONDS_PER_DAY)
             expectedTotal == got.details.rentAmount * (monthsSinceStart + 1)
             paid == totalPaid(records)
         IN [result |-> Ok,
             balance |-> IF expectedTotal > paid THEN expectedTotal - paid ELSE 0]

\* mutant: only an Active agreement is charged
calculateLateFeesActiveOnly(agreementId) ==
    LET got == getAgreementDetails(agreementId)
    IN IF got.result # Ok THEN [result |-> got.result, fee |-> 0]
       ELSE
         LET lastPayment == IF lastPaymentDate[agreementId] = 0
                            THEN got.details.startDate
                            ELSE lastPaymentDate[agreementId]
         IN IF lastPayment > now
            THEN [result |-> Underflow, fee |-> 0]
            ELSE
              LET daysLate == (now - lastPayment) \div SECONDS_PER_DAY
              IN IF daysLate <= GRACE_PERIOD_DAYS \/ got.details.status # Active
                 THEN [result |-> Ok, fee |-> 0]
                 ELSE [result |-> Ok,
                       fee |-> (got.details.rentAmount * LATE_FEE_PERCENTAGE) \div 100]

\* _calculateLateFees
calculateLateFees(agreementId) ==
    LET got == getAgreementDetails(agreementId)
    IN IF got.result # Ok THEN [result |-> got.result, fee |-> 0]
       ELSE
         LET lastPayment == IF lastPaymentDate[agreementId] = 0
                            THEN got.details.startDate
                            ELSE lastPaymentDate[agreementId]
         IN IF lastPayment > now
            THEN [result |-> Underflow, fee |-> 0]
            ELSE
              LET daysLate == (now - lastPayment) \div SECONDS_PER_DAY
              IN IF daysLate <= GRACE_PERIOD_DAYS
                 THEN [result |-> Ok, fee |-> 0]
                 ELSE [result |-> Ok,
                       fee |-> (got.details.rentAmount * LATE_FEE_PERCENTAGE) \div 100]

\* the view calculateOutstandingRent
calculateOutstandingRent(agreementId) ==
    LET f == calculateLateFees(agreementId)
    IN [result |-> f.result,
        amount |-> IF f.result = Ok THEN outstandingBalance[agreementId] ELSE 0,
        lateFees |-> f.fee]

\* mutant: the new record is put in front of the history
pushRecordInFront(records, newPayment) == << newPayment >> \o records

\* _paymentHistory[agreementId].push(newPayment)
pushRecord(records, newPayment) == Append(records, newPayment)

\* mutant: one date of the last payment is kept for all agreements
recordLastPaymentDateForAll(agreementId) ==
    [i \in DOMAIN lastPaymentDate |-> now]

\* _lastPaymentDate[agreementId] = block.timestamp
recordLastPaymentDate(agreementId) ==
    [lastPaymentDate EXCEPT ![agreementId] = now]

ProcessRentPayment(caller, agreementId, value) ==
    LET newPayment == [timestamp |-> now, amount |-> value,
                       paymentType |-> Rent, confirmed |-> TRUE]
        records == pushRecord(paymentHistory[agreementId], newPayment)
        valid == onlyValidAgreement(agreementId)
        upd == updateOutstandingBalance(agreementId, records)
        err == IF valid # Ok THEN valid
               ELSE IF ~(value >= agreements[agreementId].rentAmount)
               THEN "Insufficient payment"
               ELSE upd.result
    IN
    /\ err = Ok => Len(paymentHistory[agreementId]) < MaxPayments
    /\ IF err # Ok
       THEN /\ UNCHANGED paymentVars
            /\ last' = Call("processRentPayment", caller,
                            [agreementId |-> agreementId, value |-> value], err, 0)
       ELSE /\ paymentHistory' = [paymentHistory EXCEPT ![agreementId] = records]
            /\ lastPaymentDate' = recordLastPaymentDate(agreementId)
            /\ outstandingBalance' =
                   [outstandingBalance EXCEPT ![agreementId] = upd.balance]
            /\ pmBalance' = pmBalance + value
            /\ lateFeesCharged' = [lateFeesCharged EXCEPT ![agreementId] = 0]
            /\ UNCHANGED << depositBalances, depositReleased >>
            /\ last' = Call("processRentPayment", caller,
                            [agreementId |-> agreementId, value |-> value], Ok, 1)
    /\ UNCHANGED << now, verifierCore, accessVars, coreVars, complianceVars >>

ProcessDeposit(caller, agreementId, value) ==
    LET newPayment == [timestamp |-> now, amount |-> value,
                       paymentType |-> Deposit, confirmed |-> TRUE]
        valid == onlyValidAgreement(agreementId)
        err == IF valid # Ok THEN valid
               ELSE IF ~(value >= agreements[agreementId].depositAmount)
               THEN "Insufficient deposit"
               ELSE Ok
    IN
    /\ err = Ok => Len(paymentHistory[agreementId]) < MaxPayments
    /\ IF err # Ok
       THEN /\ UNCHANGED paymentVars
            /\ last' = Call("processDeposit", caller,
                            [agreementId |-> agreementId, value |-> value], err, 0)
       ELSE /\ paymentHistory' =
                   [paymentHistory EXCEPT ![agreementId] = pushRecord(@, newPayment)]
            /\ depositBalances' = [depositBalances EXCEPT ![agreementId] = @ + value]
            /\ pmBalance' = pmBalance + value
            /\ UNCHANGED << lastPaymentDate, outstandingBalance, depositReleased,
                            lateFeesCharged >>
            /\ last' = Call("processDeposit", caller,
                            [agreementId |-> agreementId, value |-> value], Ok, 1)
    /\ UNCHANGED << now, verifierCore, accessVars, coreVars, complianceVars >>

\* uint8(paymentType)
paymentTypeCode(paymentType) ==
    CASE paymentType = Rent -> 0 [] paymentType = Deposit -> 1 [] OTHER -> 2

\* the view getPaymentHistory: three parallel arrays copied from the records
getPaymentHistory(agreementId) ==
    LET records == paymentHistory[agreementId]
    IN [timestamps |-> [i \in DOMAIN records |-> records[i].timestamp],
        amounts |-> [i \in DOMAIN records |-> records[i].amount],
        types |-> [i \in DOMAIN records |-> paymentTypeCode(records[i].paymentType)]]

\* recipient.call{value: amount}(""): the transfer completes when the manager
\* holds the funds and the recipient accepts them
transferSucceeds(recipient, amount) ==
    /\ amount <= pmBalance
    /\ recipient # Rejector

\* mutant: the decrement made before the transfer survives a failed transfer
releaseDepositBalancesKeptOnFailure(agreementId, amount, err) ==
    IF err \in {Ok, "Transfer failed"}
    THEN [depositBalances EXCEPT ![agreementId] = @ - amount]
    ELSE depositBalances

\* mutant: the funds are sent without the deposit balance being reduced
releaseDepositBalancesNotReduced(agreementId, amount, err) == depositBalances

\* the deposit balances a releaseDeposit call leaves behind, given its outcome
releaseDepositBalances(agreementId, amount, err) ==
    IF err = Ok
    THEN [depositBalances EXCEPT ![agreementId] = @ - amount]
    ELSE depositBalances

\* mutant: the require on the deposit balance is missing
releaseDepositRequireNoBalance(caller, agreementId, amount, recipient) ==
    IF ~onlyAuthorized(caller) THEN "Not authorized"
    ELSE IF recipient = Zero THEN "Invalid recipient"
    ELSE IF ~transferSucceeds(recipient, amount) THEN "Transfer failed"
    ELSE Ok

\* the first failing require of releaseDeposit; the transfer comes last
releaseDepositRequire(caller, agreementId, amount, recipient) ==
    IF ~onlyAuthorized(caller) THEN "Not authorized"
    ELSE IF recipient = Zero THEN "Invalid recipient"
    ELSE IF ~(amount <= depositBalances[agreementId])
    THEN "Insufficient deposit balance"
    ELSE IF ~transferSucceeds(recipient, amount) THEN "Transfer failed"
    ELSE Ok

ReleaseDeposit(caller, agreementId, amount, recipient) ==
    LET err == releaseDepositRequire(caller, agreementId, amount, recipient)
        args == [agreementId |-> agreementId, amount |-> amount,
                 recipient |-> recipient]
    IN
    /\ depositBalances' = releaseDepositBalances(agreementId, amount, err)
    /\ pmBalance' = (IF err = Ok THEN pmBalance - amount ELSE pmBalance)
    /\ depositReleased' = (IF err = Ok
                           THEN [depositReleased EXCEPT ![agreementId] = @ + amount]
                           ELSE depositReleased)
    /\ last' = Call("releaseDeposit", caller, args, err, IF err = Ok THEN 1 ELSE 0)
    /\ UNCHANGED << paymentHistory, lastPaymentDate, outstandingBalance,
                    lateFeesCharged >>
    /\ UNCHANGED << now, verifierCore, accessVars, coreVars, complianceVars >>

\* mutant: the fee replaces the outstanding balance
handleLateFeesBalanceOverwritten(agreementId, lateFees) ==
    [outstandingBalance EXCEPT ![agreementId] = lateFees]

\* _outstandingBalance[agreementId].add(lateFees)
handleLateFeesBalance(agreementId, lateFees) ==
    [outstandingBalance EXCEPT ![agreementId] = @ + lateFees]

HandleLateFees(caller, agreementId) ==
    LET f == calculateLateFees(agreementId)
        err == IF ~onlyAuthorized(caller) THEN "Not authorized" ELSE f.result
    IN
    /\ (err = Ok /\ f.fee > 0) => lateFeesCharged[agreementId] < MaxLateFees
    /\ IF err = Ok /\ f.fee > 0
       THEN /\ outstandingBalance' = handleLateFeesBalance(agreementId, f.fee)
            /\ lateFeesCharged' = [lateFeesCharged EXCEPT ![agreementId] = @ + 1]
       ELSE UNCHANGED << outstandingBalance, lateFeesCharged >>
    /\ last' = Call("handleLateFees", caller, [agreementId |-> agreementId], err,
                    IF err = Ok THEN f.fee ELSE 0)
    /\ UNCHANGED << paymentHistory, depositBalances, lastPaymentDate, pmBalance,
                    depositReleased >>
    /\ UNCHANGED << now, verifierCore, accessVars, coreVars, complianceVars >>

RECURSIVE SumOver(_, _)
SumOver(f, keys) ==
    IF keys = {} THEN 0
    ELSE LET k == CHOOSE x \in keys : TRUE
         IN f[k] + SumOver(f, keys \ {k})

\* mutant: the withdrawal leaves the escrowed deposits in the manager
emergencyWithdrawSparesDeposits ==
    LET escrowed == SumOver(depositBalances, DOMAIN depositBalances)
    IN IF escrowed <= pmBalance THEN pmBalance - escrowed ELSE 0

\* uint256 balance = address(this).balance: what emergencyWithdraw sends
emergencyWithdrawBalance == pmBalance

\* emergencyWithdraw; the value of `last` is the amount sent to the recipient
EmergencyWithdraw(caller, recipient) ==
    LET err == IF ~onlyAuthorized(caller) THEN "Not authorized"
               ELSE IF recipient = Zero THEN "Invalid recipient"
               ELSE IF recipient = Rejector THEN "Transfer failed"
               ELSE Ok
    IN
    /\ pmBalance' = (IF err = Ok THEN pmBalance - emergencyWithdrawBalance
                     ELSE pmBalance)
    /\ last' = Call("emergencyWithdraw", caller, recipient, err,
                    IF err = Ok THEN emergencyWithdrawBalance ELSE 0)
    /\ UNCHANGED << paymentHistory, depositBalances, lastPaymentDate,
                    outstandingBalance, depositReleased, lateFeesCharged >>
    /\ UNCHANGED << now, verifierCore, accessVars, coreVars, complianceVars >>

(***************************************************************************)
(* PaymentManager: a recipient contract that calls back                    *)
(***************************************************************************)
\* What the recipient's receive() does with the manager while it is being paid:
\* nothing, handleLateFees(agreementId), or emergencyWithdraw(recipient). It
\* makes the call at a low level, so a revert of the call does not make it
\* refuse the funds.
NoCallback == [op |-> "none"]
Callbacks ==
    {NoCallback}
    \cup {[op |-> "handleLateFees", agreementId |-> i] : i \in AgreementIdInputs}
    \cup {[op |-> "emergencyWithdraw", recipient |-> "Tenant"]}

\* The outcome of `callback` made by `sender` while the manager holds
\* `balance`; `entered` tells whether the function that is paying has set the
\* reentrancy guard. handleLateFees is nonReentrant and onlyAuthorized,
\* emergencyWithdraw is onlyAuthorized only.
reenter(entered, sender, callback, balance) ==
    IF callback.op = "none"
    THEN [result |-> "none", fee |-> 0, sent |-> 0]
    ELSE IF callback.op = "handleLateFees"
    THEN LET f == calculateLateFees(callback.agreementId)
         IN IF entered
            THEN [result |-> "ReentrancyGuard: reentrant call", fee |-> 0, sent |-> 0]
            ELSE IF ~onlyAuthorized(sender)
            THEN [result |-> "Not authorized", fee |-> 0, sent |-> 0]
            ELSE [result |-> f.result, fee |-> IF f.result = Ok THEN f.fee ELSE 0,
                  sent |-> 0]
    ELSE IF ~onlyAuthorized(sender)
    THEN [result |-> "Not authorized", fee |-> 0, sent |-> 0]
    ELSE IF callback.recipient = Zero
    THEN [result |-> "Invalid recipient", fee |-> 0, sent |-> 0]
    ELSE IF callback.recipient = Rejector
    THEN [result |-> "Transfer failed", fee |-> 0, sent |-> 0]
    ELSE [result |-> Ok, fee |-> 0, sent |-> balance]

\* the effect of a completed handleLateFees callback on the balances
reenterLateFees(callback, c) ==
    /\ (callback.op = "handleLateFees" /\ c.fee > 0)
           => lateFeesCharged[callback.agreementId] < MaxLateFees
    /\ IF callback.op = "handleLateFees" /\ c.fee > 0
       THEN /\ outstandingBalance' =
                   handleLateFeesBalance(callback.agreementId, c.fee)
            /\ lateFeesCharged' =
                   [lateFeesCharged EXCEPT ![callback.agreementId] = @ + 1]
       ELSE UNCHANGED << outstandingBalance, lateFeesCharged >>

\* releaseDeposit to a recipient whose receive() makes `callback`. The guard
\* is set when the recipient runs, and the manager then holds what is left
\* after the payment. The callback runs only if the requires before the
\* transfer pass and the manager can pay.
ReleaseDepositReentered(caller, agreementId, amount, recipient, callback) ==
    LET err == releaseDepositRequire(caller, agreementId, amount, recipient)
        c == IF err = Ok THEN reenter(TRUE, recipient, callback, pmBalance - amount)
             ELSE [result |-> "none", fee |-> 0, sent |-> 0]
        args == [agreementId |-> agreementId, amount |-> amount,
                 recipient |-> recipient, callback |-> callback]
    IN
    /\ depositBalances' = releaseDepositBalances(agreementId, amount, err)
    /\ pmBalance' = (IF err = Ok THEN pmBalance - amount - c.sent ELSE pmBalance)
    /\ depositReleased' = (IF err = Ok
                           THEN [depositReleased EXCEPT ![agreementId] = @ + amount]
                           ELSE depositReleased)
    /\ reenterLateFees(callback, c)
    /\ last' = Call("releaseDeposit", caller, args, err,
                    [value |-> IF err = Ok THEN 1 ELSE 0, callback |-> c])
    /\ UNCHANGED << paymentHistory, lastPaymentDate >>
    /\ UNCHANGED << now, verifierCore, accessVars, coreVars, complianceVars >>

\* emergencyWithdraw to a recipient whose receive() makes `callback`. The
\* function is not nonReentrant, so the guard is not set when the recipient
\* runs; the manager has sent its whole balance by then.
EmergencyWithdrawReentered(caller, recipient, callback) ==
    LET err == IF ~onlyAuthorized(caller) THEN "Not authorized"
               ELSE IF recipient = Zero THEN "Invalid recipient"
               ELSE IF recipient = Rejector THEN "Transfer failed"
               ELSE Ok
        c == IF err = Ok THEN reenter(FALSE, recipient, callback, 0)
             ELSE [result |-> "none", fee |-> 0, sent |-> 0]
        args == [recipient |-> recipient, callback |-> callback]
    IN
    /\ pmBalance' = (IF err = Ok THEN pmBalance - emergencyWithdrawBalance - c.sent
                     ELSE pmBalance)
    /\ reenterLateFees(callback, c)
    /\ last' = Call("emergencyWithdraw", caller, args, err,
                    [value |-> IF err = Ok THEN emergencyWithdrawBalance ELSE 0,
                     callback |-> c])
    /\ UNCHANGED << paymentHistory, depositBalances, lastPaymentDate,
                    depositReleased >>
    /\ UNCHANGED << now, verifierCore, accessVars, coreVars, complianceVars >>

(***************************************************************************)
(* The clock and the specification                                         *)
(***************************************************************************)
AdvanceTime(d, maxDays) ==
    /\ now + d <= T0 + maxDays * SECONDS_PER_DAY
    /\ now' = now + d
    /\ last' = Call("advanceTime", Zero, d, Ok, 0)
    /\ UNCHANGED << verifierCore, accessVars, coreVars, complianceVars, paymentVars >>

Deployer == "Admin"

Init ==
    /\ now = T0
    /\ verifierCore \in {Linked, Placeholder}
    /\ roles = {<<DEFAULT_ADMIN_ROLE, Deployer>>, <<SYSTEM_ADMIN, Deployer>>}
    /\ permissions = grantAllPermissions({}, Deployer)
    /\ userPermissions =
           [a \in Accounts |->
               IF a = Deployer
               THEN updateUserPermissions(grantAllPermissions({}, Deployer), Deployer)
               ELSE << >>]
    /\ paused = FALSE
    /\ propertyIds = 0
    /\ agreementIds = 0
    /\ properties = << >>
    /\ agreements = << >>
    /\ userProperties = [a \in Accounts |-> << >>]
    /\ userAgreements = [a \in Accounts |-> << >>]
    /\ currentParameters = [parametersHash |-> ZeroHash, lastUpdateTime |-> 0,
                            active |-> FALSE]
    /\ complianceChecks = << >>
    /\ authorizedVerifiers = {}
    /\ paymentHistory = [i \in LedgerIds |-> << >>]
    /\ depositBalances = [i \in LedgerIds |-> 0]
    /\ lastPaymentDate = [i \in LedgerIds |-> 0]
    /\ outstandingBalance = [i \in LedgerIds |-> 0]
    /\ pmBalance = 0
    /\ depositReleased = [i \in LedgerIds |-> 0]
    /\ lateFeesCharged = [i \in LedgerIds |-> 0]
    /\ last = Call("constructor", Deployer, << >>, Ok, 0)

\* RentalCore with its compliance gate and the permissions it consults
Next ==
    \/ \E d \in {LongStep} : AdvanceTime(d, MaxElapsedDays)
    \/ \E c \in Accounts, g \in GrantInputs : GrantPermission(c, g[1], g[2])
    \/ \E c \in Accounts, g \in GrantInputs : RevokePermission(c, g[1], g[2])
    \/ \E c \in Accounts, h \in ParameterInputs : UpdateComplianceParameters(c, h)
    \/ \E c \in Accounts, h \in DataHashInputs : RegisterProperty(c, h)
    \/ \E c \in Accounts, a \in CreateInputs(now), r \in PlaceholderAnswers :
           CreateAgreement(c, a, r)
    \/ \E c \in Accounts, i \in AgreementIdInputs, r \in PlaceholderAnswers :
           TerminateAgreement(c, i, r)
    \/ \E c \in Accounts, i \in AgreementIdInputs, s \in StatusInputs :
           UpdateAgreementStatus(c, i, s)
    \/ \E c \in Accounts : EmergencyShutdown(c)
    \/ \E c \in Accounts : ResumeOperation(c)

Spec == Init /\ [][Next]_vars

\* PaymentManager over agreements that the deployer sets up and activates
PassingAnswer ==
    [result |-> Ok, details |-> [propertyId |-> 1, landlord |-> "Landlord",
                                 tenant |-> "Tenant"]]
Outsider == "Tenant"
\* <<caller, amount, recipient>>
ReleaseInputs ==
    {<<Deployer, v, "Tenant">> : v \in ReleaseAmounts}
    \cup {<<Deployer, DepositUnit, r>> : r \in {Rejector, Zero}}
    \cup {<<Outsider, DepositUnit, "Tenant">>}
\* <<caller, recipient>>
WithdrawInputs ==
    {<<Deployer, r>> : r \in Recipients} \cup {<<Outsider, "Tenant">>}

NextPayments ==
    \/ \E d \in AdvanceSteps : AdvanceTime(d, MaxElapsedDays)
    \/ UpdateComplianceParameters(Deployer, "P1")
    \/ RegisterProperty(Deployer, "D1")
    \/ \E p \in PropertyIdInputs :
           CreateAgreement(Deployer, ValidTerms(p, now), PassingAnswer)
    \/ \E i \in AgreementIdInputs, s \in StatusInputs :
           UpdateAgreementStatus(Deployer, i, s)
    \/ \E i \in AgreementIdInputs, v \in PayAmounts :
           ProcessRentPayment("Tenant", i, v)
    \/ \E i \in AgreementIdInputs, v \in DepositAmounts :
           ProcessDeposit("Tenant", i, v)
    \/ \E i \in AgreementIdInputs, x \in ReleaseInputs :
           ReleaseDeposit(x[1], i, x[2], x[3])
    \/ \E c \in {Deployer, Outsider}, i \in AgreementIdInputs : HandleLateFees(c, i)
    \/ \E x \in WithdrawInputs : EmergencyWithdraw(x[1], x[2])

SpecPayments == Init /\ [][NextPayments]_vars

\* PaymentManager over months: rent falls due again and late fees accrue
ArrearsSteps == {(DaysPerMonth + 1) * SECONDS_PER_DAY, LongStep}

NextArrears ==
    \/ \E d \in ArrearsSteps : AdvanceTime(d, MaxArrearsDays)
    \/ UpdateComplianceParameters(Deployer, "P1")
    \/ RegisterProperty(Deployer, "D1")
    \/ \E p \in PropertyIdInputs :
           CreateAgreement(Deployer, ValidTerms(p, now), PassingAnswer)
    \/ \E i \in AgreementIdInputs, s \in {Active, Terminated} :
           UpdateAgreementStatus(Deployer, i, s)
    \/ \E i \in AgreementIdInputs, v \in {RentUnit, 2 * RentUnit} :
           ProcessRentPayment("Tenant", i, v)
    \/ \E i \in AgreementIdInputs : HandleLateFees(Deployer, i)

SpecArrears == Init /\ [][NextArrears]_vars

\* The whole system: every mutating call of RentalCore, PaymentManager and
\* ComplianceVerifier, from the deployer and from accounts without any role
Stranger == "Landlord"

\* <<caller, terms, answer of a placeholder rentalCore>>
SystemCreateInputs(t) ==
    {<<Deployer, ValidTerms(p, t), r>> : p \in PropertyIdInputs, r \in PlaceholderAnswers}
    \cup {<<Deployer, a, PassingAnswer>> : a \in CreateInputs(t)}
    \cup {<<Stranger, ValidTerms(p, t), PassingAnswer>> : p \in PropertyIdInputs}
\* <<caller, answer of a placeholder rentalCore>>
SystemTerminateInputs ==
    {<<Deployer, r>> : r \in PlaceholderAnswers} \cup {<<Stranger, PassingAnswer>>}

NextSystem ==
    \/ AdvanceTime(LongStep, MaxSystemDays)
    \/ \E c \in {Deployer, Stranger}, h \in ParameterInputs :
           UpdateComplianceParameters(c, h)
    \/ \E c \in {Deployer, Stranger}, h \in DataHashInputs : RegisterProperty(c, h)
    \/ \E x \in SystemCreateInputs(now) : CreateAgreement(x[1], x[2], x[3])
    \/ \E i \in AgreementIdInputs, x \in SystemTerminateInputs :
           TerminateAgreement(x[1], i, x[2])
    \/ \E c \in {Deployer, Stranger}, i \in AgreementIdInputs,
          s \in {Active, StatusDisputed + 1} : UpdateAgreementStatus(c, i, s)
    \/ \E i \in AgreementIdInputs, r \in PlaceholderAnswers :
           VerifyContractCompliance(Stranger, i, r)
    \/ \E i \in AgreementIdInputs, v \in {RentUnit \div 2, RentUnit} :
           ProcessRentPayment("Tenant", i, v)
    \/ \E i \in AgreementIdInputs, v \in DepositAmounts :
           ProcessDeposit("Tenant", i, v)
    \/ \E i \in AgreementIdInputs, x \in ReleaseInputs :
           ReleaseDeposit(x[1], i, x[2], x[3])
    \/ \E c \in {Deployer, Stranger}, i \in AgreementIdInputs : HandleLateFees(c, i)
    \/ \E x \in WithdrawInputs : EmergencyWithdraw(x[1], x[2])

SpecSystem == Init /\ [][NextSystem]_vars

\* One step of the clock that takes an agreement made before it past its endDate
ExpirySteps == {(DaysPerMonth + 2) * SECONDS_PER_DAY, LongStep}

\* An agreement outliving its endDate: the deployer is landlord and admin,
\* the tenant pays, either party or a stranger asks for termination
NextExpiry ==
    \/ \E d \in ExpirySteps : AdvanceTime(d, MaxArrearsDays)
    \/ UpdateComplianceParameters(Deployer, "P1")
    \/ RegisterProperty(Deployer, "D1")
    \/ \E p \in PropertyIdInputs :
           CreateAgreement(Deployer, ValidTerms(p, now), PassingAnswer)
    \/ \E i \in AgreementIdInputs : UpdateAgreementStatus(Deployer, i, Active)
    \/ \E c \in Accounts, i \in AgreementIdInputs :
           TerminateAgreement(c, i, PassingAnswer)
    \/ \E i \in AgreementIdInputs, v \in {RentUnit \div 2, RentUnit} :
           ProcessRentPayment("Tenant", i, v)

SpecExpiry == Init /\ [][NextExpiry]_vars

AllRoles == BusinessRoles \cup {SYSTEM_ADMIN}

\* a permission outside the nine predefined ones
CUSTOM_PERMISSION == "CUSTOM_PERMISSION"

\* <<account, role>>: one account is given and taken every role, and the zero
\* address is tried
RoleInputs == {<<"Landlord", r>> : r \in AllRoles} \cup {<<Zero, LANDLORD>>}

\* the deployer, and the account the roles and permissions are given to
AccessCallers == {Deployer, "Landlord"}

\* <<account, permission>>
PermissionInputs ==
    {<<"Landlord", p>> : p \in {REGISTER_PROPERTY, CUSTOM_PERMISSION}}
    \cup {<<Zero, REGISTER_PROPERTY>>}

\* the length up to which grantPermission is explored: the predefined
\* permissions the account holds and MaxExtraGrants entries more
ListBound(account) ==
    IF account = Zero THEN 0
    ELSE Len(updateUserPermissions(permissions, account)) + MaxExtraGrants

\* AccessControlManager: the six roles given to and taken from one account
NextRoles ==
    \/ \E c \in AccessCallers, x \in RoleInputs : AssignRole(c, x[1], x[2])
    \/ \E c \in AccessCallers, x \in RoleInputs : RevokeRole(c, x[1], x[2])
    \/ \E c \in AccessCallers : GrantRole(c, SYSTEM_ADMIN, "Landlord")

SpecRoles == Init /\ [][NextRoles]_vars

\* <<account, role>> for the roles that go with single permissions
AccessRoleInputs ==
    {<<"Landlord", r>> : r \in {LANDLORD, SYSTEM_ADMIN}} \cup {<<Zero, LANDLORD>>}

\* AccessControlManager: single permissions granted and revoked, repeatedly and
\* outside the predefined nine, on an account that also gets and loses roles
NextAccess ==
    \/ \E c \in AccessCallers, x \in AccessRoleInputs : AssignRole(c, x[1], x[2])
    \/ \E c \in AccessCallers, x \in AccessRoleInputs : RevokeRole(c, x[1], x[2])
    \/ \E c \in AccessCallers, x \in PermissionInputs :
           GrantPermissionUpTo(c, x[1], x[2], ListBound(x[1]))
    \/ \E c \in AccessCallers, x \in PermissionInputs :
           RevokePermission(c, x[1], x[2])

SpecAccess == Init /\ [][NextAccess]_vars

(***************************************************************************)
(* RentalUtils                                                             *)
(***************************************************************************)
MIN_RENTAL_PERIOD_DAYS == 30
MAX_RENTAL_PERIOD_YEARS == 10
DAYS_PER_YEAR == 365

\* mutant: a period of exactly the minimum length counts as too short
validateRentalPeriodStrict(startDate, endDate) ==
    IF startDate >= endDate THEN << FALSE, 1 >>
    ELSE LET durationDays == (endDate - startDate) \div SECONDS_PER_DAY
         IN IF durationDays <= MIN_RENTAL_PERIOD_DAYS THEN << FALSE, 2 >>
            ELSE IF durationDays > MAX_RENTAL_PERIOD_YEARS * DAYS_PER_YEAR
            THEN << FALSE, 3 >>
            ELSE << TRUE, 0 >>

\* validateRentalPeriod: <<valid, reason>>
validateRentalPeriod(startDate, endDate) ==
    IF startDate >= endDate THEN << FALSE, 1 >>
    ELSE LET durationDays == (endDate - startDate) \div SECONDS_PER_DAY
         IN IF durationDays < MIN_RENTAL_PERIOD_DAYS THEN << FALSE, 2 >>
            ELSE IF durationDays > MAX_RENTAL_PERIOD_YEARS * DAYS_PER_YEAR
            THEN << FALSE, 3 >>
            ELSE << TRUE, 0 >>

calculateLateFee(amount, daysLate) ==
    LET annualRate == 1185
        dailyFee == (amount * annualRate * daysLate) \div 36500
    IN dailyFee

\* a library call: nothing is stored, the call and its value are recorded
ValidateRentalPeriod(startDate, endDate) ==
    /\ last' = Call("validateRentalPeriod", Zero,
                    [startDate |-> startDate, endDate |-> endDate], Ok,
                    validateRentalPeriod(startDate, endDate))
    /\ UNCHANGED << now, verifierCore, accessVars, coreVars, complianceVars,
                    paymentVars >>

CalculateLateFee(amount, daysLate) ==
    /\ last' = Call("calculateLateFee", Zero,
                    [amount |-> amount, daysLate |-> daysLate], Ok,
                    calculateLateFee(amount, daysLate))
    /\ UNCHANGED << now, verifierCore, accessVars, coreVars, complianceVars,
                    paymentVars >>

\* start dates, and the lengths around the two limits of validateRentalPeriod,
\* in whole days and with a part of a day more
PeriodStarts == {0, T0, T0 + SECONDS_PER_DAY - 1}
LongestPeriodDays == MAX_RENTAL_PERIOD_YEARS * DAYS_PER_YEAR
PeriodDays ==
    {0, 1, MIN_RENTAL_PERIOD_DAYS - 1, MIN_RENTAL_PERIOD_DAYS,
     MIN_RENTAL_PERIOD_DAYS + 1, LongestPeriodDays - 1, LongestPeriodDays,
     LongestPeriodDays + 1}
PeriodSeconds == {0, 1, SECONDS_PER_DAY - 1}
PeriodInputs ==
    {<<s, s + d * SECONDS_PER_DAY + x>> :
        s \in PeriodStarts, d \in PeriodDays, x \in PeriodSeconds}
    \cup UNION { {<<s, 0>>, <<s, s - 1>>, <<s, s - SECONDS_PER_DAY>>} :
                    s \in PeriodStarts \ {0} }

\* amounts from 0 to 10^MaxAmountSteps, and one that the rate divides evenly
RECURSIVE PowerOfTen(_)
PowerOfTen(n) == IF n = 0 THEN 1 ELSE 10 * PowerOfTen(n - 1)
FeeAmounts == {0, 36500} \cup {PowerOfTen(n) : n \in 0 .. MaxAmountSteps}

NextUtils ==
    \/ \E x \in PeriodInputs : ValidateRentalPeriod(x[1], x[2])
    \/ \E a \in FeeAmounts, d \in 0 .. MaxDaysLate : CalculateLateFee(a, d)

SpecUtils == Init /\ [][NextUtils]_vars

\* The property registry, with the permissions and the pause it depends on
NextRegistry ==
    \/ \E c \in Accounts, g \in GrantInputs : GrantPermission(c, g[1], g[2])
    \/ \E c \in Accounts, g \in GrantInputs : RevokePermission(c, g[1], g[2])
    \/ \E c \in Accounts, h \in DataHashInputs :
           RegisterPropertyUpTo(c, h, MaxRegistered)
    \/ \E c \in Accounts : EmergencyShutdown(c)
    \/ \E c \in Accounts : ResumeOperation(c)

SpecRegistry == Init /\ [][NextRegistry]_vars

(***************************************************************************)
(* Properties                                                              *)
(***************************************************************************)
ledgerVars == << now, verifierCore, roles, permissions, userPermissions, paused,
                 propertyIds, agreementIds, properties, agreements, userProperties,
                 userAgreements, currentParameters, complianceChecks,
                 authorizedVerifiers, paymentHistory, depositBalances, lastPaymentDate,
                 outstandingBalance, pmBalance, depositReleased, lateFeesCharged >>

TerminalStatuses == {Terminated, Expired, Disputed}

\* the preconditions C1 lists, read in the state the call is made in
CreatePreconditions(caller, a) ==
    /\ ~paused
    /\ currentParameters.active
    /\ propertyExists(a.propertyId)
    /\ properties[a.propertyId].owner = caller
    /\ properties[a.propertyId].isActive
    /\ a.tenant # Zero
    /\ a.terms # ZeroHash
    /\ a.startDate > now
    /\ a.endDate > a.startDate
    /\ a.rentAmount > 0
    /\ a.depositAmount > 0

\* C1: with RentalCore wired to the repository's ComplianceVerifier (which reads
\* RentalCore back), a createAgreement call that meets every listed precondition
\* succeeds, returns the next agreement id and stores a Pending agreement with
\* landlord = caller and exactly the supplied fields -- the first one included.
C1_CreateAgreementSucceeds ==
    [][ ( /\ last'.op = "createAgreement"
          /\ verifierCore = Linked
          /\ CreatePreconditions(last'.caller, last'.args) )
        => /\ last'.result = Ok
           /\ last'.ret = agreementIds + 1
           /\ agreementIds' = agreementIds + 1
           /\ agreements'[last'.ret] =
                 [propertyId |-> last'.args.propertyId, landlord |-> last'.caller,
                  tenant |-> last'.args.tenant, startDate |-> last'.args.startDate,
                  endDate |-> last'.args.endDate,
                  rentAmount |-> last'.args.rentAmount,
                  depositAmount |-> last'.args.depositAmount, status |-> Pending,
                  termsHash |-> last'.args.terms, amendmentHashes |-> << >>]
      ]_vars

\* C2: a terminateAgreement call succeeds only on an agreement that is Active at
\* the call and leaves it Terminated; on an agreement that is not Active every
\* call fails and changes nothing; and calling it again, by either party, right
\* after a successful termination fails with "Agreement not active".
C2_TerminateOnlyFromActive ==
    [][ last'.op = "terminateAgreement" =>
          LET id == last'.args.agreementId
          IN /\ last'.result = Ok =>
                   /\ agreementExists(id)
                   /\ agreements[id].status = Active
                   /\ agreements'[id].status = Terminated
             /\ (agreementExists(id) /\ agreements[id].status # Active) =>
                   /\ last'.result # Ok
                   /\ UNCHANGED ledgerVars
             /\ ( /\ last.op = "terminateAgreement"
                  /\ last.result = Ok
                  /\ last.args.agreementId = id
                  /\ last'.caller \in {agreements[id].landlord, agreements[id].tenant} )
                => /\ last'.result = "Agreement not active"
                   /\ UNCHANGED ledgerVars
      ]_vars

\* a party's terminateAgreement was refused on a Terminated agreement
C2_Witness ==
    /\ last.op = "terminateAgreement"
    /\ last.result = "Agreement not active"
    /\ agreementExists(last.args.agreementId)
    /\ agreements[last.args.agreementId].status = Terminated

\* C3 as stated: once Terminated, Expired or Disputed, the status of an agreement
\* never changes again, whatever is called by whomever.
C3_TerminalIsFinal ==
    [][ \A id \in DOMAIN agreements :
            agreements[id].status \in TerminalStatuses
            => agreements'[id].status = agreements[id].status ]_vars

\* C3 amended: once Terminated, Expired or Disputed, the status changes again only
\* by a successful updateAgreementStatus of a caller holding UPDATE_AGREEMENT; no
\* other operation of any caller changes it.
C3_TerminalChangesOnlyByOverride ==
    [][ \A id \in DOMAIN agreements :
            ( /\ agreements[id].status \in TerminalStatuses
              /\ agreements'[id].status # agreements[id].status )
            => /\ last'.op = "updateAgreementStatus"
               /\ last'.result = Ok
               /\ last'.args.agreementId = id
               /\ hasPermission(last'.caller, UPDATE_AGREEMENT) ]_vars

\* a party tried to terminate an Expired agreement and it stayed Expired
C3_Witness ==
    /\ last.op = "terminateAgreement"
    /\ last.result = "Agreement not active"
    /\ agreementExists(last.args.agreementId)
    /\ agreements[last.args.agreementId].status = Expired

\* what C4 says of an updateAgreementStatus call on an existing agreement by a
\* holder of UPDATE_AGREEMENT
StatusOverrideOutcome ==
    LET id == last'.args.agreementId
        s == last'.args.status
    IN IF s <= StatusDisputed
       THEN /\ last'.result = Ok
            /\ agreements'[id].status = s
       ELSE /\ last'.result = "Invalid status"
            /\ agreements' = agreements

\* C4 as stated: for an existing agreement and a caller holding UPDATE_AGREEMENT,
\* updateAgreementStatus(id, s) always succeeds and sets the status to s when s is
\* in 0..4, and fails with "Invalid status" leaving the status when s > 4.
C4_OverrideAlwaysSucceeds ==
    [][ ( /\ last'.op = "updateAgreementStatus"
          /\ agreementExists(last'.args.agreementId)
          /\ hasPermission(last'.caller, UPDATE_AGREEMENT) )
        => StatusOverrideOutcome ]_vars

\* C4 amended: the same, while RentalCore is not paused.
C4_OverrideSucceedsWhenNotPaused ==
    [][ ( /\ last'.op = "updateAgreementStatus"
          /\ ~paused
          /\ agreementExists(last'.args.agreementId)
          /\ hasPermission(last'.caller, UPDATE_AGREEMENT) )
        => StatusOverrideOutcome ]_vars

\* an override has put an agreement (back) to Pending
C4_Witness ==
    /\ last.op = "updateAgreementStatus"
    /\ last.result = Ok
    /\ last.args.status = Pending
    /\ agreements[last.args.agreementId].status = Pending

\* C5: createAgreement stores a Pending agreement, never an Active one; a status
\* becomes Active only in a successful updateAgreementStatus step of a caller that
\* holds UPDATE_AGREEMENT in the state of the call; and an updateAgreementStatus
\* of a caller without it fails and changes no agreement.
C5_ActivationIsPrivileged ==
    [][ /\ (last'.op = "createAgreement" /\ last'.result = Ok)
           => agreements'[last'.ret].status = Pending
        /\ \A id \in DOMAIN agreements' :
              ( /\ agreements'[id].status = Active
                /\ (id \notin DOMAIN agreements \/ agreements[id].status # Active) )
              => /\ last'.op = "updateAgreementStatus"
                 /\ last'.result = Ok
                 /\ last'.args.agreementId = id
                 /\ hasPermission(last'.caller, UPDATE_AGREEMENT)
        /\ ( /\ last'.op = "updateAgreementStatus"
             /\ ~hasPermission(last'.caller, UPDATE_AGREEMENT) )
           => /\ last'.result # Ok
              /\ agreements' = agreements
      ]_vars

\* an account that was granted UPDATE_AGREEMENT has activated an agreement
C5_Witness ==
    /\ last.op = "updateAgreementStatus"
    /\ last.result = Ok
    /\ last.caller # Deployer
    /\ last.args.status = Active
    /\ agreements[last.args.agreementId].status = Active

\* C6: processRentPayment and processDeposit on an agreement that does not exist
\* or whose status is not Active fail: no PaymentRecord is appended and no
\* balance or lastPaymentDate changes.
C6_PaymentsNeedActive ==
    [][ ( /\ last'.op \in {"processRentPayment", "processDeposit"}
          /\ \/ ~agreementExists(last'.args.agreementId)
             \/ agreements[last'.args.agreementId].status # Active )
        => /\ last'.result # Ok
           /\ UNCHANGED ledgerVars ]_vars

\* a rent payment was refused on an agreement that is still Pending
C6_Witness ==
    /\ last.op = "processRentPayment"
    /\ last.result = "Agreement not active"
    /\ agreements[last.args.agreementId].status = Pending
    /\ paymentHistory[last.args.agreementId] = << >>

\* C7: on an Active agreement, at every current time (before the start date
\* included), processRentPayment with value >= rentAmount succeeds; and when it
\* is the first payment and equals rentAmount, calculateOutstandingRent right
\* after it returns (0, 0).
C7_RentPaymentSucceeds ==
    [][ \A id \in AgreementIdInputs :
          ( /\ last'.op = "processRentPayment"
            /\ last'.args.agreementId = id
            /\ agreementExists(id)
            /\ agreements[id].status = Active
            /\ last'.args.value >= agreements[id].rentAmount )
          => /\ last'.result = Ok
             /\ ( /\ paymentHistory[id] = << >>
                  /\ last'.args.value = agreements[id].rentAmount )
                => calculateOutstandingRent(id)'
                       = [result |-> Ok, amount |-> 0, lateFees |-> 0]
      ]_vars

RECURSIVE totalDeposited(_)
\* the sum of the amounts of the DepositProcessed records of a history
totalDeposited(records) ==
    IF records = << >> THEN 0
    ELSE (IF Head(records).paymentType = Deposit THEN Head(records).amount ELSE 0)
         + totalDeposited(Tail(records))

\* C8: in every reachable state the deposit balance of an agreement is the sum of
\* its successful deposits minus the sum of its successful releases and is never
\* negative; and a releaseDeposit asking for more than that balance fails and
\* changes nothing, with "Insufficient deposit balance" once the caller is
\* authorized and the recipient is non-zero.
C8_DepositLedger ==
    /\ [](\A id \in AgreementIdInputs :
             /\ depositBalances[id]
                  = totalDeposited(paymentHistory[id]) - depositReleased[id]
             /\ depositBalances[id] >= 0)
    /\ [][ ( /\ last'.op = "releaseDeposit"
             /\ last'.args.amount > depositBalances[last'.args.agreementId] )
           => /\ last'.result # Ok
              /\ UNCHANGED ledgerVars
              /\ (onlyAuthorized(last'.caller) /\ last'.args.recipient # Zero)
                 => last'.result = "Insufficient deposit balance" ]_vars

\* after a partial release, a release of more than what is left was refused
C8_Witness ==
    /\ last.op = "releaseDeposit"
    /\ last.result = "Insufficient deposit balance"
    /\ depositReleased[last.args.agreementId] > 0
    /\ depositBalances[last.args.agreementId] > 0
    /\ last.args.amount > depositBalances[last.args.agreementId]

\* C9: when an authorized releaseDeposit to a non-zero recipient for an amount
\* within the deposit balance cannot complete its transfer, the call fails with
\* "Transfer failed" and the deposit balance, the custodial balance and all other
\* state are as before the call.
C9_FailedTransferRollsBack ==
    [][ ( /\ last'.op = "releaseDeposit"
          /\ onlyAuthorized(last'.caller)
          /\ last'.args.recipient # Zero
          /\ last'.args.amount <= depositBalances[last'.args.agreementId]
          /\ ~transferSucceeds(last'.args.recipient, last'.args.amount) )
        => /\ last'.result = "Transfer failed"
           /\ UNCHANGED ledgerVars ]_vars

\* a release within the deposit balance failed in its transfer
C9_Witness ==
    /\ last.op = "releaseDeposit"
    /\ last.result = "Transfer failed"
    /\ last.args.amount > 0
    /\ depositBalances[last.args.agreementId] >= last.args.amount

\* what a payment covers of a balance
Covered(balance, value) == IF value <= balance THEN value ELSE balance

\* C10: when handleLateFees has just added a fee F > 0 to the outstanding balance
\* of an agreement (a balance that, F apart, is what the rent schedule and the
\* rent payments so far give), the successful processRentPayment that follows
\* stores the fee-inflated balance minus what the payment covers.
C10_PaymentSettlesInflatedBalance ==
    [][ \A id \in AgreementIdInputs :
          ( /\ last.op = "handleLateFees"
            /\ last.result = Ok
            /\ last.ret > 0
            /\ last.args.agreementId = id
            /\ outstandingBalance[id] - last.ret
                 = updateOutstandingBalance(id, paymentHistory[id]).balance
            /\ last'.op = "processRentPayment"
            /\ last'.result = Ok
            /\ last'.args.agreementId = id )
          => outstandingBalance'[id]
               = outstandingBalance[id]
                 - Covered(outstandingBalance[id], last'.args.value)
      ]_vars

RECURSIVE rentRecorded(_)
\* the sum of the amounts of the Rent records of a history
rentRecorded(records) ==
    IF records = << >> THEN 0
    ELSE (IF Head(records).paymentType = Rent THEN Head(records).amount ELSE 0)
         + rentRecorded(Tail(records))

\* rent due at time t: one rentAmount per started 30-day period since startDate
rentDue(id, t) ==
    agreements[id].rentAmount
      * (((t - agreements[id].startDate) \div (30 * 86400)) + 1)

\* C11: right after every successful processRentPayment on an agreement at time
\* t, its outstandingBalance is max(0, rentAmount * (floor((t - startDate) / 30
\* days) + 1) - the Rent amounts of its history, the new one included); the call
\* appends exactly one Rent record of the amount sent, which is at least
\* rentAmount, and no call with such an amount is refused as insufficient,
\* whatever the arrears.
C11_BalanceRecomputedOnPayment ==
    [][ \A id \in AgreementIdInputs :
          ( /\ last'.op = "processRentPayment"
            /\ last'.args.agreementId = id )
          => /\ last'.result = Ok =>
                  /\ last'.args.value >= agreements[id].rentAmount
                  /\ paymentHistory'[id] =
                         Append(paymentHistory[id],
                                [timestamp |-> now, amount |-> last'.args.value,
                                 paymentType |-> Rent, confirmed |-> TRUE])
                  /\ LET due == rentDue(id, now)
                         paid == rentRecorded(paymentHistory'[id])
                     IN outstandingBalance'[id] = IF due > paid THEN due - paid ELSE 0
             /\ ( /\ agreementExists(id)
                  /\ last'.args.value >= agreements[id].rentAmount )
                => last'.result # "Insufficient payment"
      ]_vars

\* one rentAmount was accepted while two were due: arrears remain on the books
C11_Witness ==
    /\ last.op = "processRentPayment"
    /\ last.result = Ok
    /\ last.args.value = agreements[last.args.agreementId].rentAmount
    /\ outstandingBalance[last.args.agreementId] > 0

RECURSIVE lastRentTime(_, _)
\* the time of the last Rent record of a history, or `none` when it has none
lastRentTime(records, none) ==
    IF records = << >> THEN none
    ELSE IF records[Len(records)].paymentType = Rent
    THEN records[Len(records)].timestamp
    ELSE lastRentTime(SubSeq(records, 1, Len(records) - 1), none)

\* C12: for every existing agreement calculateOutstandingRent returns, with the
\* stored outstandingBalance, lateFees = rentAmount * 10 / 100 when
\* floor((now - ref) / 86400) > 5 and lateFees = 0 otherwise, ref being the time
\* of the last rent payment or startDate when there has been none.
C12_LateFeeRule ==
    \A id \in AgreementIdInputs :
        agreementExists(id) =>
            LET ref == lastRentTime(paymentHistory[id], agreements[id].startDate)
                fee == IF (now - ref) \div 86400 > 5
                       THEN (agreements[id].rentAmount * 10) \div 100
                       ELSE 0
            IN calculateOutstandingRent(id)
                 = [result |-> Ok, amount |-> outstandingBalance[id], lateFees |-> fee]

IsPrefix(s, t) == Len(s) <= Len(t) /\ SubSeq(t, 1, Len(s)) = s

\* every array getPaymentHistory returns before is a prefix of the one after
HistoryExtends(before, after) ==
    /\ IsPrefix(before.timestamps, after.timestamps)
    /\ IsPrefix(before.amounts, after.amounts)
    /\ IsPrefix(before.types, after.types)

\* the arrays `before` with one more entry at their end
HistoryWith(before, timestamp, amount, type) ==
    [timestamps |-> Append(before.timestamps, timestamp),
     amounts |-> Append(before.amounts, amount),
     types |-> Append(before.types, type)]

\* C13: in every step what getPaymentHistory returns for an agreement is a prefix
\* of what it returns afterwards, hence of what it returns in every later state;
\* it grows by exactly one record, at its end, in a successful processRentPayment
\* (type 0, Rent) or processDeposit (type 1, Deposit) on that agreement, and is
\* the same after every other step.
C13_HistoryAppendOnly ==
    [][ \A id \in AgreementIdInputs :
          /\ HistoryExtends(getPaymentHistory(id), getPaymentHistory(id)')
          /\ getPaymentHistory(id)' =
               IF /\ last'.op \in {"processRentPayment", "processDeposit"}
                  /\ last'.result = Ok
                  /\ last'.args.agreementId = id
               THEN HistoryWith(getPaymentHistory(id), now, last'.args.value,
                                IF last'.op = "processRentPayment" THEN 0 ELSE 1)
               ELSE getPaymentHistory(id)
      ]_vars

\* a deposit has been recorded behind an earlier rent payment
C13_Witness ==
    /\ last.op = "processDeposit"
    /\ last.result = Ok
    /\ Len(paymentHistory[last.args.agreementId]) = 2
    /\ paymentHistory[last.args.agreementId][1].paymentType = Rent
    /\ paymentHistory[last.args.agreementId][2].paymentType = Deposit

MutatingOps ==
    {"registerProperty", "createAgreement", "terminateAgreement",
     "updateAgreementStatus", "processRentPayment", "processDeposit",
     "releaseDeposit", "handleLateFees", "emergencyWithdraw"}

\* C14: every failing call of a mutating operation leaves all state as it was:
\* id counters, property and agreement records, payment histories, balances,
\* lastPaymentDate and the compliance records, those the verifier wrote earlier
\* in the same call included.
C14_FailedCallsChangeNothing ==
    [][ (last'.op \in MutatingOps /\ last'.result # Ok)
        => UNCHANGED ledgerVars ]_vars

\* createAgreement reverted inside the verifier, on a party with the zero
\* address, and no compliance record of that call is left
C14_Witness ==
    /\ last.op = "createAgreement"
    /\ last.result = "Invalid party address"
    /\ agreementIds = 0
    /\ complianceChecks = << >>

\* the errors C15 allows createAgreement(a) by `caller` to report: those of the
\* first group of preconditions, in the order of the claim, that does not hold;
\* empty when all hold up to the compliance check
ClaimedCreateErrors(caller, a) ==
    IF ~propertyExists(a.propertyId) THEN {"Property doesn't exist"}
    ELSE IF ~properties[a.propertyId].isActive THEN {"Property not active"}
    ELSE IF properties[a.propertyId].owner # caller THEN {"Not property owner"}
    ELSE IF a.tenant = Zero \/ a.terms = ZeroHash
    THEN {e \in {"Invalid tenant address"} : a.tenant = Zero}
         \cup {e \in {"Invalid terms"} : a.terms = ZeroHash}
    ELSE IF ~(a.startDate > now) THEN {"Invalid start date"}
    ELSE IF ~(a.endDate > a.startDate) THEN {"Invalid end date"}
    ELSE IF ~(a.rentAmount > 0) \/ ~(a.depositAmount > 0)
    THEN {e \in {"Invalid rent amount"} : ~(a.rentAmount > 0)}
         \cup {e \in {"Invalid deposit amount"} : ~(a.depositAmount > 0)}
    ELSE {}

\* C15: while RentalCore is not paused, a createAgreement call that misses a
\* precondition reports the first one missed in this order: property exists and
\* is active; caller is the owner; tenant and terms non-zero; startDate > now;
\* endDate > startDate; rentAmount and depositAmount > 0.  So a caller who is not
\* the owner gets "Not property owner" whatever else is wrong with the arguments.
C15_CreateCheckOrder ==
    [][ ( /\ last'.op = "createAgreement"
          /\ ~paused
          /\ ClaimedCreateErrors(last'.caller, last'.args) # {} )
        => last'.result \in ClaimedCreateErrors(last'.caller, last'.args) ]_vars


\* Every id a getPropertyDetails call may be given in the registry
RegistryIds == 0 .. (MaxRegistered + 1)

AssignedIds == 1 .. propertyIds

\* C16: property ids are handed out as 1, 2, 3, ... by the successful
\* registerProperty calls and are never reused or reassigned: the assigned
\* ids are exactly 1 .. propertyIds, getPropertyDetails fails with
\* "Property doesn't exist" for every other id, a successful call returns
\* the next id and stores owner = caller, the supplied non-zero dataHash,
\* isActive = TRUE and an empty agreementHistory under it, and the details
\* of an id assigned earlier never change.
C16_PropertyIdsSequential ==
    /\ [](/\ DOMAIN properties = AssignedIds
          /\ \A id \in RegistryIds :
                id \notin AssignedIds
                => getPropertyDetails(id).result = "Property doesn't exist")
    /\ [][ /\ \A id \in AssignedIds : getPropertyDetails(id)' = getPropertyDetails(id)
           /\ propertyIds' # propertyIds
              => (last'.op = "registerProperty" /\ last'.result = Ok)
           /\ (last'.op = "registerProperty" /\ last'.result = Ok)
              => /\ last'.ret = propertyIds + 1
                 /\ propertyIds' = propertyIds + 1
                 /\ last'.args # ZeroHash
                 /\ \A id \in RegistryIds :
                       id = propertyIds + 1
                       => /\ getPropertyDetails(id)' =
                                [result |-> Ok, owner |-> last'.caller,
                                 dataHash |-> last'.args, isActive |-> TRUE]
                          /\ properties'[id].agreementHistory = << >> ]_vars

\* The third property has just been registered, by someone else than the
\* owner of the first
C16_Witness ==
    /\ last.op = "registerProperty"
    /\ last.result = Ok
    /\ last.ret = 3
    /\ getPropertyDetails(3).owner = last.caller
    /\ getPropertyDetails(1).owner # last.caller

\* C17: registerProperty fails, without consuming an id or storing anything,
\* whenever the caller lacks REGISTER_PROPERTY or the dataHash is zero: with
\* "No permission" when the missing permission is the only fault, with
\* "Invalid property data" when RentalCore is not paused and the dataHash
\* is zero; hence every stored property has a non-zero dataHash and owner.
C17_RegisterRejected ==
    /\ [](\A id \in DOMAIN properties :
             /\ properties[id].dataHash # ZeroHash
             /\ properties[id].owner # Zero)
    /\ [][ ( /\ last'.op = "registerProperty"
             /\ \/ ~hasPermission(last'.caller, REGISTER_PROPERTY)
                \/ last'.args = ZeroHash )
           => /\ last'.result # Ok
              /\ UNCHANGED << coreVars, accessVars, complianceVars, paymentVars >>
              /\ (~paused /\ last'.args = ZeroHash)
                 => last'.result = "Invalid property data"
              /\ (~paused /\ last'.args # ZeroHash)
                 => last'.result = "No permission" ]_vars

\* A caller whose permission was revoked after it registered a property is
\* turned away with a valid dataHash
C17_Witness ==
    /\ last.op = "registerProperty"
    /\ last.result = "No permission"
    /\ last.args # ZeroHash
    /\ \E id \in DOMAIN properties : properties[id].owner = last.caller
    /\ ~paused


isAgreementParty(caller, agreementId) ==
    /\ agreementExists(agreementId)
    /\ \/ agreements[agreementId].landlord = caller
       \/ agreements[agreementId].tenant = caller

\* C18: while RentalCore is not paused, terminateAgreement reports the first
\* failing check in the order: agreement absent ("Agreement doesn't exist"),
\* caller neither landlord nor tenant ("Not agreement party"), status not
\* Active ("Agreement not active"), compliance; and a call by a non-party
\* never changes the status of any agreement, whatever the caller's roles
\* and permissions and whether or not the contract is paused.
C18_TerminateCheckOrder ==
    [][ last'.op = "terminateAgreement"
        => /\ ~isAgreementParty(last'.caller, last'.args.agreementId)
              => /\ last'.result # Ok
                 /\ agreements' = agreements
           /\ ~paused
              => IF ~agreementExists(last'.args.agreementId)
                 THEN last'.result = "Agreement doesn't exist"
                 ELSE IF ~isAgreementParty(last'.caller, last'.args.agreementId)
                 THEN last'.result = "Not agreement party"
                 ELSE IF agreements[last'.args.agreementId].status # Active
                 THEN last'.result = "Agreement not active"
                 ELSE /\ last'.result \notin {"Agreement doesn't exist",
                                             "Not agreement party",
                                             "Agreement not active",
                                             "Pausable: paused"}
                      /\ last'.result = Ok
                         => agreements'[last'.args.agreementId].status = Terminated ]_vars

\* A system administrator holding UPDATE_AGREEMENT, who is no party of the
\* Active agreement, has just been turned away
C18_Witness ==
    /\ last.op = "terminateAgreement"
    /\ last.result = "Not agreement party"
    /\ hasRole(SYSTEM_ADMIN, last.caller)
    /\ hasPermission(last.caller, UPDATE_AGREEMENT)
    /\ agreementExists(last.args.agreementId)
    /\ agreements[last.args.agreementId].status = Active


\* An Active agreement whose endDate lies in the past
ActivePastEnd(agreementId) ==
    /\ agreementExists(agreementId)
    /\ agreements[agreementId].status = Active
    /\ now > agreements[agreementId].endDate

\* C19: the passing of time alone changes no stored state (every agreement
\* keeps its status, an Active one past its endDate stays Active, and the
\* stored outstanding balances stay as they are), and on an Active agreement
\* whose endDate has passed processRentPayment with value >= rentAmount and
\* terminateAgreement called by a party still succeed.
C19_TimeAloneChangesNothing ==
    [][ /\ last'.op = "advanceTime"
           => /\ now' > now
              /\ UNCHANGED << verifierCore, accessVars, coreVars, complianceVars,
                              paymentVars >>
              /\ \A id \in AgreementIdInputs :
                    (agreementExists(id) /\ agreements[id].status = Active)
                    => ActivePastEnd(id)' \/ ~(now' > agreements[id].endDate)
        /\ \A id \in AgreementIdInputs :
              ( /\ ActivePastEnd(id)
                /\ last'.op = "processRentPayment"
                /\ last'.args.agreementId = id
                /\ last'.args.value >= agreements[id].rentAmount )
              => /\ last'.result = Ok
                 /\ Len(paymentHistory'[id]) = Len(paymentHistory[id]) + 1
        /\ \A id \in AgreementIdInputs :
              ( /\ ActivePastEnd(id)
                /\ ~paused
                /\ last'.op = "terminateAgreement"
                /\ last'.args.agreementId = id
                /\ isAgreementParty(last'.caller, id) )
              => /\ last'.result = Ok
                 /\ agreements'[id].status = Terminated ]_vars

\* A rent payment has just been taken on an Active agreement after its endDate
C19_Witness ==
    /\ last.op = "processRentPayment"
    /\ last.result = Ok
    /\ ActivePastEnd(last.args.agreementId)
    /\ paymentHistory[last.args.agreementId][Len(paymentHistory[last.args.agreementId])].timestamp
           > agreements[last.args.agreementId].endDate


\* C20: as long as no updateComplianceParameters call has succeeded (the
\* parameters are not active), every verifyContractCompliance call fails with
\* "Compliance parameters not set", every createAgreement and
\* terminateAgreement call fails, and none of them changes anything; the
\* parameters change only by a successful updateComplianceParameters of a
\* SYSTEM_ADMIN with a non-zero hash, are active from then on in every later
\* state, and a zero hash is always rejected.
C20_ComplianceMustBeConfigured ==
    /\ [](currentParameters.active <=> currentParameters.parametersHash # ZeroHash)
    /\ [][ /\ ~currentParameters.active
              => /\ last'.op = "verifyContractCompliance"
                    => last'.result = "Compliance parameters not set"
                 /\ last'.op \in {"verifyContractCompliance", "createAgreement",
                                  "terminateAgreement"}
                    => /\ last'.result # Ok
                       /\ UNCHANGED << now, verifierCore, accessVars, coreVars,
                                       complianceVars, paymentVars >>
                 /\ ( /\ last'.op = "createAgreement"
                      /\ ~paused
                      /\ ClaimedCreateErrors(last'.caller, last'.args) = {} )
                    => last'.result = "Compliance parameters not set"
           /\ currentParameters.active => currentParameters'.active
           /\ currentParameters' # currentParameters
              => /\ last'.op = "updateComplianceParameters"
                 /\ last'.result = Ok
                 /\ hasRole(SYSTEM_ADMIN, last'.caller)
                 /\ currentParameters'.active
           /\ last'.op = "updateComplianceParameters"
              => /\ last'.result = Ok
                    <=> (hasRole(SYSTEM_ADMIN, last'.caller) /\ last'.args # ZeroHash)
                 /\ last'.result = Ok => currentParameters'.parametersHash = last'.args
                 /\ last'.args = ZeroHash
                    => /\ UNCHANGED complianceVars
                       /\ hasRole(SYSTEM_ADMIN, last'.caller)
                          => last'.result = "Invalid parameters" ]_vars

\* A createAgreement on a registered property has just been refused because
\* no compliance parameters were ever set
C20_Witness ==
    /\ last.op = "createAgreement"
    /\ last.result = "Compliance parameters not set"
    /\ ~currentParameters.active
    /\ propertyIds > 0
    /\ agreementIds = 0


\* C21: a successful emergencyWithdraw sends the whole custodial balance of the
\* PaymentManager to the recipient and leaves the manager with 0, while every
\* deposit balance, outstanding balance, payment history and last payment
\* date stays as it was; so right after it an authorized releaseDeposit of a
\* positive amount within the deposit balance, to a recipient that accepts
\* funds, fails with "Transfer failed".
C21_WithdrawDrainsCustody ==
    [][ (last'.op = "emergencyWithdraw" /\ last'.result = Ok)
        => /\ last'.ret = pmBalance
           /\ pmBalance' = 0
           /\ UNCHANGED << paymentHistory, depositBalances, lastPaymentDate,
                           outstandingBalance >>
           /\ \A c \in Accounts, id \in AgreementIdInputs, v \in ReleaseAmounts :
                 (onlyAuthorized(c) /\ 0 < v /\ v <= depositBalances[id])
                 => releaseDepositRequire(c, id, v, "Tenant")' = "Transfer failed" ]_vars

\* After a withdrawal that emptied the manager, a release within the deposit
\* balance has just failed for lack of funds
C21_Witness ==
    /\ last.op = "releaseDeposit"
    /\ last.result = "Transfer failed"
    /\ last.args.recipient = "Tenant"
    /\ 0 < last.args.amount
    /\ last.args.amount <= depositBalances[last.args.agreementId]
    /\ pmBalance = 0


\* C22: releaseDeposit, handleLateFees and emergencyWithdraw called by an
\* account that holds neither PAYMENT_MANAGER nor SYSTEM_ADMIN at the time of
\* the call fail with "Not authorized", change no state and move no funds.
C22_PrivilegedPaymentCalls ==
    [][ ( /\ last'.op \in {"releaseDeposit", "handleLateFees", "emergencyWithdraw"}
          /\ ~hasRole(PAYMENT_MANAGER, last'.caller)
          /\ ~hasRole(SYSTEM_ADMIN, last'.caller) )
        => /\ last'.result = "Not authorized"
           /\ last'.ret = 0
           /\ UNCHANGED << now, verifierCore, accessVars, coreVars, complianceVars,
                           paymentVars >> ]_vars

\* The tenant, holding no role, has just been refused the release of a deposit
\* that is in escrow and that the manager could have paid out
C22_Witness ==
    /\ last.op = "releaseDeposit"
    /\ last.result = "Not authorized"
    /\ ~onlyAuthorized(last.caller)
    /\ last.args.recipient = last.caller
    /\ 0 < last.args.amount
    /\ last.args.amount <= depositBalances[last.args.agreementId]
    /\ last.args.amount <= pmBalance


PausableOps ==
    {"registerProperty", "createAgreement", "terminateAgreement",
     "updateAgreementStatus"}

registryVars ==
    << propertyIds, agreementIds, properties, agreements, userProperties,
       userAgreements >>

\* C23: while RentalCore is paused, every registerProperty, createAgreement,
\* terminateAgreement and updateAgreementStatus call fails with
\* "Pausable: paused" and no property or agreement state changes, while
\* getPropertyDetails and getAgreementDetails answer for what is stored; the
\* pause flag is set only by a successful emergencyShutdown and cleared only
\* by a successful resumeOperation, both of a SYSTEM_ADMIN; and once resumed
\* the operations are no longer stopped: a registerProperty and an
\* updateAgreementStatus that meet their own requirements succeed, and no
\* call reports the pause.
C23_PauseStopsMutations ==
    /\ [](/\ \A id \in DOMAIN properties : getPropertyDetails(id).result = Ok
          /\ \A id \in DOMAIN agreements :
                getAgreementDetails(id) = [result |-> Ok, details |-> agreements[id]])
    /\ [][ /\ paused
              => /\ UNCHANGED registryVars
                 /\ last'.op \in PausableOps
                    => /\ last'.result = "Pausable: paused"
                       /\ UNCHANGED << now, verifierCore, accessVars, coreVars,
                                       complianceVars, paymentVars >>
           /\ paused' # paused
              => /\ last'.result = Ok
                 /\ hasRole(SYSTEM_ADMIN, last'.caller)
                 /\ last'.op = (IF paused' THEN "emergencyShutdown"
                                ELSE "resumeOperation")
           /\ last'.op \in {"emergencyShutdown", "resumeOperation"}
              => /\ UNCHANGED registryVars
                 /\ ~hasRole(SYSTEM_ADMIN, last'.caller)
                    => (last'.result = "Not system admin" /\ paused' = paused)
                 /\ last'.result = Ok
                    => paused' = (last'.op = "emergencyShutdown")
           /\ ~paused
              => /\ last'.op \in PausableOps => last'.result # "Pausable: paused"
                 /\ ( /\ last'.op = "registerProperty"
                      /\ last'.args # ZeroHash
                      /\ hasPermission(last'.caller, REGISTER_PROPERTY) )
                    => last'.result = Ok
                 /\ ( /\ last'.op = "updateAgreementStatus"
                      /\ agreementExists(last'.args.agreementId)
                      /\ hasPermission(last'.caller, UPDATE_AGREEMENT)
                      /\ last'.args.status <= StatusDisputed )
                    => last'.result = Ok ]_vars

\* The admin, who holds UPDATE_AGREEMENT, has just been refused a status
\* override of an existing agreement because RentalCore is paused
C23_Witness ==
    /\ paused
    /\ last.op = "updateAgreementStatus"
    /\ last.result = "Pausable: paused"
    /\ hasPermission(last.caller, UPDATE_AGREEMENT)
    /\ agreementExists(last.args.agreementId)
    /\ last.args.status <= StatusDisputed


\* C24: handleLateFees never appends a payment record and never changes a
\* deposit balance or a last payment date; when it succeeds with a positive
\* fee, that fee is the lateFees value calculateOutstandingRent reports in the
\* state of the call, the outstanding balance of the agreement grows by
\* exactly the fee and one LateFeeCharged event is emitted; when the fee is 0,
\* or the call fails, nothing changes and nothing is charged.
C24_LateFeesFrame ==
    [][ \A id \in AgreementIdInputs :
          (last'.op = "handleLateFees" /\ last'.args.agreementId = id)
          => /\ UNCHANGED << paymentHistory, depositBalances, lastPaymentDate,
                             pmBalance, depositReleased >>
             /\ UNCHANGED << now, verifierCore, accessVars, coreVars, complianceVars >>
             /\ last'.result = Ok
                => /\ calculateOutstandingRent(id).result = Ok
                   /\ last'.ret = calculateOutstandingRent(id).lateFees
             /\ (last'.result = Ok /\ last'.ret > 0)
                => /\ outstandingBalance' =
                          [outstandingBalance EXCEPT ![id] = @ + last'.ret]
                   /\ lateFeesCharged'[id] = lateFeesCharged[id] + 1
             /\ (last'.result # Ok \/ last'.ret = 0)
                => /\ last'.ret = 0
                   /\ UNCHANGED << outstandingBalance, lateFeesCharged >> ]_vars

\* A fee has just been added to a balance that was already positive, on an
\* agreement with a payment on record
C24_Witness ==
    /\ last.op = "handleLateFees"
    /\ last.result = Ok
    /\ last.ret > 0
    /\ outstandingBalance[last.args.agreementId] > last.ret
    /\ Len(paymentHistory[last.args.agreementId]) = 1


\* the permissions an account holds, given the _permissions mapping
permissionsOf(perms, account) == {x[1] : x \in {y \in perms : y[2] = account}}

rolesOf(held, account) == {x[1] : x \in {y \in held : y[2] = account}}

NinePermissions ==
    {REGISTER_PROPERTY, CREATE_AGREEMENT, UPDATE_AGREEMENT, PROCESS_PAYMENT,
     ACCESS_PAYMENT_HISTORY, VERIFY_COMPLIANCE, TRANSFER_OWNERSHIP,
     TERMINATE_AGREEMENT, UPDATE_SYSTEM}

\* the permissions C25 lists for each role
ClaimedRolePermissions(role) ==
    CASE role = LANDLORD ->
           {REGISTER_PROPERTY, CREATE_AGREEMENT, ACCESS_PAYMENT_HISTORY,
            TRANSFER_OWNERSHIP, TERMINATE_AGREEMENT}
      [] role = TENANT ->
           {PROCESS_PAYMENT, ACCESS_PAYMENT_HISTORY, TERMINATE_AGREEMENT}
      [] role = BROKER ->
           {REGISTER_PROPERTY, CREATE_AGREEMENT, ACCESS_PAYMENT_HISTORY}
      [] role = PROPERTY_MANAGER ->
           {UPDATE_AGREEMENT, PROCESS_PAYMENT, ACCESS_PAYMENT_HISTORY}
      [] role = LEGAL_VERIFIER -> {VERIFY_COMPLIANCE}
      [] role = SYSTEM_ADMIN -> NinePermissions

\* C25: when assignRole(account, R) succeeds for an account that held no role
\* and no permission, the permissions the account holds afterwards are exactly
\* those listed for R (five for LANDLORD, three each for TENANT, BROKER and
\* PROPERTY_MANAGER, one for LEGAL_VERIFIER, all nine for SYSTEM_ADMIN), the
\* account holds the role R and no other, and getPermissions lists the same.
C25_RoleDefaultPermissions ==
    [][ ( /\ last'.op = "assignRole"
          /\ last'.result = Ok
          /\ rolesOf(roles, last'.args[1]) = {}
          /\ permissionsOf(permissions, last'.args[1]) = {} )
        => /\ last'.args[2] \in AllRoles
           /\ permissionsOf(permissions', last'.args[1])
                  = ClaimedRolePermissions(last'.args[2])
           /\ rolesOf(roles', last'.args[1]) = {last'.args[2]}
           /\ { userPermissions'[last'.args[1]][i] :
                  i \in DOMAIN userPermissions'[last'.args[1]] }
                  = ClaimedRolePermissions(last'.args[2]) ]_vars

\* An account holding nothing else has just been made a TENANT and holds the
\* three permissions of a tenant
C25_Witness ==
    /\ last.op = "assignRole"
    /\ last.result = Ok
    /\ last.args[2] = TENANT
    /\ rolesOf(roles, last.args[1]) = {TENANT}
    /\ Len(getPermissions(last.args[1])) = 3
    /\ hasPermission(last.args[1], TERMINATE_AGREEMENT)


\* the role whose holders administer a role, as C26 states it
ClaimedRoleAdmin(role) ==
    IF role \in {LANDLORD, TENANT, BROKER, PROPERTY_MANAGER, LEGAL_VERIFIER}
    THEN SYSTEM_ADMIN
    ELSE DEFAULT_ADMIN_ROLE

\* the role a caller must hold for the call `c` of the AccessControlManager
RequiredRole(c) ==
    IF c.op \in {"assignRole", "revokeRole"} THEN ClaimedRoleAdmin(c.args[2])
    ELSE SYSTEM_ADMIN

\* C26: assignRole and revokeRole succeed only for a caller that holds the
\* admin role of the target role (SYSTEM_ADMIN for the five business roles),
\* grantPermission and revokePermission only for a caller that holds
\* SYSTEM_ADMIN; for every other caller the call fails, with "Not authorized"
\* when the account is not the zero address, and no role or permission of any
\* account changes.
C26_AdministrationIsPrivileged ==
    [][ last'.op \in {"assignRole", "revokeRole", "grantPermission",
                      "revokePermission"}
        => /\ last'.result = Ok => hasRole(RequiredRole(last'), last'.caller)
           /\ ~hasRole(RequiredRole(last'), last'.caller)
              => /\ last'.result # Ok
                 /\ last'.args[1] # Zero => last'.result = "Not authorized"
                 /\ UNCHANGED << roles, permissions, userPermissions >>
           /\ (hasRole(RequiredRole(last'), last'.caller) /\ last'.args[1] # Zero)
              => last'.result = Ok ]_vars

\* A system administrator that is not a default admin has just been refused
\* the assignment of SYSTEM_ADMIN
C26_Witness ==
    /\ last.op = "assignRole"
    /\ last.result = "Not authorized"
    /\ last.args[2] = SYSTEM_ADMIN
    /\ hasRole(SYSTEM_ADMIN, last.caller)
    /\ ~hasRole(DEFAULT_ADMIN_ROLE, last.caller)


\* C27: in every reachable state every account that holds the SYSTEM_ADMIN
\* role holds all nine predefined permissions, UPDATE_AGREEMENT among them,
\* whether the role came from the constructor, from assignRole or from the
\* inherited grantRole.
C27_AdminHoldsAllPermissions ==
    \A account \in Accounts :
        hasRole(SYSTEM_ADMIN, account)
        => \A p \in NinePermissions : hasPermission(account, p)


\* every permission an access-control call may name
PermissionNames == NinePermissions \cup {CUSTOM_PERMISSION}

\* C28: in every reachable state and for every account, getPermissions lists
\* a permission exactly when hasPermission is true for it, and lists no
\* permission twice, whatever assignRole, revokeRole, grantPermission and
\* revokePermission calls were made.
C28_PermissionListMatches ==
    \A account \in Accounts :
        LET listed == getPermissions(account)
        IN /\ \A p \in PermissionNames :
                 (\E i \in DOMAIN listed : listed[i] = p) <=> hasPermission(account, p)
           /\ \A i, j \in DOMAIN listed : listed[i] = listed[j] => i = j


\* C29: validateRentalPeriod(start, end) never fails and returns (true, 0)
\* exactly when end > start and the length in whole days,
\* floor((end - start) / 86400), is between 30 and 3650; otherwise (false, 1)
\* when end <= start, (false, 2) when end > start and the length is below 30
\* days, and (false, 3) when it is above 3650 days.
C29_RentalPeriodCodes ==
    [][ last'.op = "validateRentalPeriod"
        => LET start == last'.args.startDate
               end == last'.args.endDate
               days == (end - start) \div 86400
           IN /\ last'.result = Ok
              /\ last'.ret = << TRUE, 0 >>
                 <=> (end > start /\ 30 <= days /\ days <= 3650)
              /\ end <= start => last'.ret = << FALSE, 1 >>
              /\ (end > start /\ days < 30) => last'.ret = << FALSE, 2 >>
              /\ (end > start /\ days > 3650) => last'.ret = << FALSE, 3 >> ]_vars

\* A period of 30 days less one second has just been found too short
C29_Witness ==
    /\ last.op = "validateRentalPeriod"
    /\ last.ret = << FALSE, 2 >>
    /\ last.args.endDate - last.args.startDate = 30 * 86400 - 1

\* C30: calculateLateFee(amount, daysLate) returns
\* floor(amount * 1185 * daysLate / 36500) when daysLate is above the 5 days
\* of grace, and 0 for every daysLate <= 5, daysLate = 0 included.
C30_LateFeeAfterGrace ==
    [][ last'.op = "calculateLateFee"
        => last'.ret =
              (IF last'.args.daysLate > 5
               THEN (last'.args.amount * 1185 * last'.args.daysLate) \div 36500
               ELSE 0) ]_vars

\* Rental periods at createAgreement: whole days from startDate to endDate at,
\* just inside and just outside the limits of RentalUtils.validateRentalPeriod
DurationDays ==
    {1, MIN_RENTAL_PERIOD_DAYS - 1, MIN_RENTAL_PERIOD_DAYS,
     MAX_RENTAL_PERIOD_YEARS * DAYS_PER_YEAR,
     MAX_RENTAL_PERIOD_YEARS * DAYS_PER_YEAR + 1}

PeriodTerms(propertyId, t, days) ==
    [ValidTerms(propertyId, t) EXCEPT
        !.endDate = t + SECONDS_PER_DAY + days * SECONDS_PER_DAY]

NextPeriods ==
    \/ \E d \in AdvanceSteps \cup {LongStep} : AdvanceTime(d, MaxElapsedDays)
    \/ UpdateComplianceParameters(Deployer, "P1")
    \/ RegisterProperty(Deployer, "D1")
    \/ \E p \in PropertyIdInputs, d \in DurationDays :
           CreateAgreement(Deployer, PeriodTerms(p, now, d), PassingAnswer)
    \/ \E i \in AgreementIdInputs, s \in {Active, Terminated} :
           UpdateAgreementStatus(Deployer, i, s)

SpecPeriods == Init /\ [][NextPeriods]_vars

\* the duration in whole days that validateRentalPeriod measures
durationDays(a) == (a.endDate - a.startDate) \div SECONDS_PER_DAY

\* C31: every agreement that createAgreement stores has a duration
\* floor((endDate - startDate) / 86400) of at least 30 and at most 3650 days,
\* and a createAgreement request with a shorter or longer duration is
\* rejected and stores nothing.
C31_StoredPeriodValid ==
    /\ [](\A id \in DOMAIN agreements :
             agreementExists(id)
             => /\ durationDays(agreements[id]) >= 30
                /\ durationDays(agreements[id]) <= 3650)
    /\ [][ (/\ last'.op = "createAgreement"
            /\ ~(/\ durationDays(last'.args) >= 30
                 /\ durationDays(last'.args) <= 3650))
           => /\ last'.result # Ok
              /\ UNCHANGED coreVars ]_vars

\* ComplianceVerifier called directly by an administrator and by an account
\* without any role, and by RentalCore when an agreement is created
VerifierCallers == {Deployer, Stranger}

NextVerifier ==
    \/ AdvanceTime(LongStep, MaxSystemDays)
    \/ UpdateComplianceParameters(Deployer, "P1")
    \/ RegisterProperty(Deployer, "D1")
    \/ \E p \in PropertyIdInputs :
           CreateAgreement(Deployer, ValidTerms(p, now), PassingAnswer)
    \/ \E c \in VerifierCallers, i \in AgreementIdInputs, r \in PlaceholderAnswers :
           VerifyContractCompliance(c, i, r)
    \/ \E c \in VerifierCallers, a \in {"Landlord", Zero} :
           VerifyLandlordCompliance(c, a)
    \/ \E c \in VerifierCallers, a \in {"Tenant", Zero} :
           VerifyTenantCompliance(c, a)
    \/ \E c \in VerifierCallers, v \in {Stranger, Zero} : AuthorizeVerifier(c, v)
    \/ \E c \in VerifierCallers, v \in {Stranger} : RevokeVerifier(c, v)

SpecVerifier == Init /\ [][NextVerifier]_vars

\* the entities a status is asked for: none, properties, agreements, parties
EntityIds ==
    {0} \cup PropertyIdInputs \cup AgreementIdInputs
        \cup {addressId(a) : a \in Accounts}

EntityTypes == 0 .. TENANT_TYPE

NeverChecked ==
    [result |-> Ok, passed |-> FALSE, lastCheckTime |-> 0, detailsHash |-> ZeroHash]

CheckingOps ==
    {"verifyContractCompliance", "verifyLandlordCompliance",
     "verifyTenantCompliance", "createAgreement", "terminateAgreement"}

\* C32: getComplianceStatus(entityId, entityType) returns the passed flag,
\* the timestamp and the digest of the most recent committed check of exactly
\* that pair, a later check overwriting an earlier one; a pair never checked
\* reads (false, 0, zero digest); an entityType above 4 is rejected.
C32_StatusIsLastCheck ==
    /\ \A e \in EntityIds, t \in EntityTypes : getComplianceStatus(e, t) = NeverChecked
    /\ [](\A e \in EntityIds, t \in (TENANT_TYPE + 1) .. (TENANT_TYPE + 2) :
             getComplianceStatus(e, t).result = "Invalid entity type")
    /\ [][ \A e \in EntityIds, t \in EntityTypes :
             LET before == getComplianceStatus(e, t)
                 after == getComplianceStatus(e, t)'
             IN
             \* a committed check of a party is what is read for that party
             /\ (/\ last'.result = Ok
                 /\ \/ last'.op = "verifyLandlordCompliance" /\ t = LANDLORD_TYPE
                    \/ last'.op = "verifyTenantCompliance" /\ t = TENANT_TYPE
                 /\ e = addressId(last'.args))
                => after = [result |-> Ok, passed |-> last'.ret[1],
                            lastCheckTime |-> now, detailsHash |-> last'.ret[2]]
             \* and so is a committed check of an agreement
             /\ (/\ last'.result = Ok
                 /\ last'.op = "verifyContractCompliance"
                 /\ e = last'.args.agreementId
                 /\ t = AGREEMENT_TYPE)
                => /\ after.passed = (last'.ret = 1)
                   /\ after.lastCheckTime = now
             \* nothing but a check committed in this very call changes a reading
             /\ after # before
                => /\ last'.op \in CheckingOps
                   /\ last'.result = Ok
                   /\ after.lastCheckTime = now
                   /\ after.detailsHash # ZeroHash ]_vars

\* a landlord's check made later than the tenant's is the one that is read
C32_Witness ==
    /\ last.op = "verifyLandlordCompliance"
    /\ last.result = Ok
    /\ now > T0
    /\ getComplianceStatus(addressId("Landlord"), LANDLORD_TYPE).lastCheckTime = now
    /\ getComplianceStatus(addressId("Landlord"), LANDLORD_TYPE).detailsHash = last.ret[2]
    /\ getComplianceStatus(addressId("Tenant"), TENANT_TYPE).lastCheckTime = T0
    /\ getComplianceStatus(addressId("Admin"), LANDLORD_TYPE) = NeverChecked

\* The property registry and the calls that would hand a property over
NextOwnership ==
    \/ \E c \in Accounts, g \in GrantInputs : GrantPermission(c, g[1], g[2])
    \/ \E c \in Accounts, g \in GrantInputs : RevokePermission(c, g[1], g[2])
    \/ \E c \in Accounts, h \in DataHashInputs :
           RegisterPropertyUpTo(c, h, MaxRegistered)
    \/ \E c \in Accounts, p \in 1 .. (MaxRegistered + 1), n \in {"Tenant", Zero} :
           TransferOwnership(c, p, n)

SpecOwnership == Init /\ [][NextOwnership]_vars

\* C33: transferOwnership(caller, propertyId, newOwner) succeeds when, and
\* only when, caller is the current owner of the property; on success the
\* owner becomes newOwner while agreementHistory, dataHash, isActive and every
\* agreement (its landlord included) stay as they were; for any other caller
\* it fails and nothing changes.
C33_TransferOwnership ==
    [][ last'.op = "transferOwnership"
        => IF /\ propertyExists(last'.args.propertyId)
              /\ properties[last'.args.propertyId].owner = last'.caller
           THEN /\ last'.result = Ok
                /\ properties' = [properties EXCEPT
                                     ![last'.args.propertyId].owner = last'.args.newOwner]
                /\ agreements' = agreements
           ELSE /\ last'.result # Ok
                /\ UNCHANGED ledgerVars ]_vars

\* Several properties of two owners and several agreements on them
MaxListed == 2
MaxHistory == 3
ListedIds == 1 .. (MaxListed + 1)
Owners == {Deployer, "Landlord"}

NextHistory ==
    \/ \E g \in GrantInputs : GrantPermission(Deployer, g[1], g[2])
    \/ UpdateComplianceParameters(Deployer, "P1")
    \/ \E c \in Owners : RegisterPropertyUpTo(c, "D1", MaxListed)
    \/ \E c \in Owners, p \in ListedIds :
           CreateAgreementUpTo(c, ValidTerms(p, now), PassingAnswer, MaxHistory)
    \/ \E i \in {1, MaxHistory + 1} : UpdateAgreementStatus(Deployer, i, Active)
    \/ \E i \in {1, MaxHistory + 1} : TerminateAgreement("Tenant", i, PassingAnswer)

SpecHistory == Init /\ [][NextHistory]_vars

\* how often id occurs in the sequence
Occurrences(seq, id) == Cardinality({k \in DOMAIN seq : seq[k] = id})

StrictlyIncreasing(seq) ==
    \A j, k \in DOMAIN seq : j < k => seq[j] < seq[k]

\* C34: in every reachable state each stored agreement references a registered
\* property, its landlord is the owner of that property (the owner it had at
\* creation: the code never changes an owner), its id occurs exactly once in
\* that property's agreementHistory and in no other property's; every
\* agreementHistory lists ids in strictly increasing order, and a step only
\* ever appends to it.
C34_AgreementHistory ==
    /\ [](/\ \A id \in DOMAIN agreements :
               agreementExists(id)
               => /\ propertyExists(agreements[id].propertyId)
                  /\ agreements[id].landlord = properties[agreements[id].propertyId].owner
                  /\ \A p \in DOMAIN properties :
                        Occurrences(properties[p].agreementHistory, id)
                            = (IF p = agreements[id].propertyId THEN 1 ELSE 0)
          /\ \A p \in DOMAIN properties :
                StrictlyIncreasing(properties[p].agreementHistory))
    /\ [][ /\ \A p \in DOMAIN properties :
                /\ p \in DOMAIN properties'
                /\ IsPrefix(properties[p].agreementHistory,
                            properties'[p].agreementHistory)
           \* the owner of a property at creation is the caller who becomes landlord
           /\ (last'.op = "createAgreement" /\ last'.result = Ok)
              => /\ agreements'[last'.ret].landlord
                        = properties[last'.args.propertyId].owner
                 /\ properties'[last'.args.propertyId].agreementHistory
                        = Append(properties[last'.args.propertyId].agreementHistory,
                                 last'.ret) ]_vars

\* two properties of different owners, the second with two agreements after
\* the first got one
C34_Witness ==
    /\ propertyIds = 2
    /\ properties[1].owner # properties[2].owner
    /\ Len(properties[1].agreementHistory) = 1
    /\ Len(properties[2].agreementHistory) = 2
    /\ last.op = "createAgreement"
    /\ last.result = Ok
    /\ last.ret = 3

\* Payments out of the manager to recipients that call back: the landlord is
\* made a payment manager and receives deposits and withdrawals
Reenterers == {"Landlord", "Tenant"}

NextReentrancy ==
    \/ AdvanceTime(ShortStep, MaxElapsedDays)
    \/ UpdateComplianceParameters(Deployer, "P1")
    \/ RegisterProperty(Deployer, "D1")
    \/ \E p \in PropertyIdInputs :
           CreateAgreement(Deployer, ValidTerms(p, now), PassingAnswer)
    \/ \E i \in AgreementIdInputs : UpdateAgreementStatus(Deployer, i, Active)
    \/ AssignRole(Deployer, "Landlord", PAYMENT_MANAGER)
    \/ \E i \in AgreementIdInputs : ProcessDeposit("Tenant", i, DepositUnit)
    \/ \E i \in AgreementIdInputs, r \in Reenterers, cb \in Callbacks :
           ReleaseDepositReentered(Deployer, i, DepositUnit \div 2, r, cb)
    \/ \E r \in Reenterers, cb \in Callbacks :
           EmergencyWithdrawReentered(Deployer, r, cb)

SpecReentrancy == Init /\ [][NextReentrancy]_vars

\* C35: while the transfer of releaseDeposit or emergencyWithdraw is in
\* flight, a callback from the recipient cannot complete another mutating
\* PaymentManager operation, even if the recipient holds PAYMENT_MANAGER or
\* SYSTEM_ADMIN.
C35_NoInterleaving ==
    [][ (/\ last'.op \in {"releaseDeposit", "emergencyWithdraw"}
         /\ last'.args.callback.op # "none")
        => ~(/\ last'.ret.callback.result = Ok
             \* the completed callback charged a late fee or moved funds
             /\ \/ last'.ret.callback.fee > 0
                \/ last'.ret.callback.sent > 0) ]_vars

\* C36: revokeRole(account, R) removes role R and the permissions that go
\* with R only: a permission the account held before and holds through
\* another role it still has, or through a single grantPermission (one that
\* does not go with R), is still reported by hasPermission afterwards.
C36_RevokeKeepsOtherPermissions ==
    [][ (last'.op = "revokeRole" /\ last'.result = Ok)
        => /\ <<last'.args[2], last'.args[1]>> \notin roles'
           /\ \A p \in PermissionNames :
                 (/\ <<p, last'.args[1]>> \in permissions
                  /\ \/ p \notin ClaimedRolePermissions(last'.args[2])
                     \/ \E r \in rolesOf(roles', last'.args[1]) \cap AllRoles :
                           p \in ClaimedRolePermissions(r))
                 => <<p, last'.args[1]>> \in permissions' ]_vars

\* C37: a compliance record is created or overwritten only by a call of an
\* address that is an authorized verifier at that time (authorizeVerifier
\* without a later revokeVerifier), or by RentalCore during createAgreement or
\* terminateAgreement; any other caller of verifyContractCompliance,
\* verifyLandlordCompliance or verifyTenantCompliance changes no record.
C37_OnlyVerifiersRecord ==
    [][ complianceChecks' # complianceChecks
        => \/ last'.op \in {"createAgreement", "terminateAgreement"}
           \/ /\ last'.op \in {"verifyContractCompliance", "verifyLandlordCompliance",
                               "verifyTenantCompliance"}
              /\ isAuthorizedVerifier(last'.caller) ]_vars

\* the sum of the amounts of the records, Rent and Deposit alike
RECURSIVE recordedAmount(_)
recordedAmount(records) ==
    IF records = << >> THEN 0
    ELSE Head(records).amount + recordedAmount(Tail(records))

\* what was paid in on all agreements minus what was released from them
NetPaidIn ==
    SumOver([id \in AgreementIdInputs |->
                recordedAmount(paymentHistory[id]) - depositReleased[id]],
            AgreementIdInputs)

\* the manager holds at least the escrowed deposits and at least the net of
\* what was paid in
CustodyCovers ==
    /\ pmBalance >= SumOver(depositBalances, AgreementIdInputs)
    /\ pmBalance >= NetPaidIn

\* C38 as stated: as long as emergencyWithdraw has never succeeded, the
\* custodial balance is at least the sum of the deposit balances (at least all
\* recorded Rent and Deposit amounts minus all released amounts), so every
\* releaseDeposit with amount <= depositBalance to a recipient that accepts
\* funds succeeds.
C38_EveryReleaseSucceeds ==
    /\ CustodyCovers
    /\ [][ (CustodyCovers /\ ~(last'.op = "emergencyWithdraw" /\ last'.result = Ok))
           => CustodyCovers' ]_vars
    /\ [][ (/\ CustodyCovers
            /\ last'.op = "releaseDeposit"
            /\ last'.args.amount <= depositBalances[last'.args.agreementId]
            /\ last'.args.recipient \notin {Zero, Rejector})
           => last'.result = Ok ]_vars

\* C38, amended: as long as emergencyWithdraw has never succeeded, the
\* custodial balance is at least the sum of the deposit balances (at least all
\* recorded Rent and Deposit amounts minus all released amounts), so every
\* releaseDeposit made by an authorized caller with amount <= depositBalance
\* to a recipient that accepts funds succeeds.
C38_CustodyCoversDeposits ==
    /\ CustodyCovers
    /\ [][ (CustodyCovers /\ ~(last'.op = "emergencyWithdraw" /\ last'.result = Ok))
           => CustodyCovers' ]_vars
    /\ [][ (/\ CustodyCovers
            /\ last'.op = "releaseDeposit"
            /\ onlyAuthorized(last'.caller)
            /\ last'.args.amount <= depositBalances[last'.args.agreementId]
            /\ last'.args.recipient \notin {Zero, Rejector})
           => /\ last'.result = Ok
              /\ pmBalance' = pmBalance - last'.args.amount ]_vars

\* with rent and a deposit in custody and no withdrawal so far, the rest of a
\* deposit has just been released
C38_Witness ==
    /\ last.op = "releaseDeposit"
    /\ last.result = Ok
    /\ last.args.amount > 0
    /\ \E id \in AgreementIdInputs :
          /\ depositReleased[id] > last.args.amount
          /\ depositBalances[id] = 0
          /\ totalPaid(paymentHistory[id]) > 0
          /\ pmBalance = totalPaid(paymentHistory[id])

\* Two agreements on one property, made at deployment time for the same
\* period, each activated, and after a week paid, charged, released from and
\* ended on its own
NextFrame ==
    \/ AdvanceTime(2 * ShortStep, MaxElapsedDays)
    \/ UpdateComplianceParameters(Deployer, "P1")
    \/ RegisterProperty(Deployer, "D1")
    \/ \E p \in PropertyIdInputs :
           CreateAgreementUpTo(Deployer, ValidTerms(p, T0), PassingAnswer,
                               MaxAgreements + 1)
    \/ \E i \in LedgerIds : UpdateAgreementStatus(Deployer, i, Active)
    \/ \E i \in LedgerIds :
           now > T0 /\ TerminateAgreement("Tenant", i, PassingAnswer)
    \/ \E i \in LedgerIds :
           now > T0 /\ ProcessRentPayment("Tenant", i, RentUnit)
    \/ \E i \in LedgerIds :
           now > T0 /\ ProcessDeposit("Tenant", i, DepositUnit)
    \/ \E i \in LedgerIds :
           now > T0 /\ ReleaseDeposit(Deployer, i, DepositUnit, "Tenant")
    \/ \E i \in LedgerIds :
           now > T0 /\ HandleLateFees(Deployer, i)

SpecFrame == Init /\ [][NextFrame]_vars

AgreementOps ==
    {"processRentPayment", "processDeposit", "releaseDeposit", "handleLateFees",
     "terminateAgreement", "updateAgreementStatus"}

\* C39: an operation addressed to agreement A (processRentPayment,
\* processDeposit, releaseDeposit, handleLateFees, terminateAgreement,
\* updateAgreementStatus) leaves the status, the stored fields, the payment
\* history, depositBalance, outstandingBalance and lastPaymentDate of every
\* other agreement B unchanged; processDeposit and releaseDeposit leave A's
\* outstandingBalance and lastPaymentDate unchanged, and processRentPayment
\* leaves A's depositBalance unchanged.
C39_OtherAgreementsUntouched ==
    [][ last'.op \in AgreementOps
        => /\ \A b \in LedgerIds \ {last'.args.agreementId} :
                /\ (b \in DOMAIN agreements) = (b \in DOMAIN agreements')
                /\ b \in DOMAIN agreements => agreements'[b] = agreements[b]
                /\ paymentHistory'[b] = paymentHistory[b]
                /\ depositBalances'[b] = depositBalances[b]
                /\ outstandingBalance'[b] = outstandingBalance[b]
                /\ lastPaymentDate'[b] = lastPaymentDate[b]
           /\ (/\ last'.op \in {"processDeposit", "releaseDeposit"}
               /\ last'.args.agreementId \in LedgerIds)
              => /\ outstandingBalance'[last'.args.agreementId]
                       = outstandingBalance[last'.args.agreementId]
                 /\ lastPaymentDate'[last'.args.agreementId]
                       = lastPaymentDate[last'.args.agreementId]
           /\ (/\ last'.op = "processRentPayment"
               /\ last'.args.agreementId \in LedgerIds)
              => depositBalances'[last'.args.agreementId]
                    = depositBalances[last'.args.agreementId] ]_vars

\* rent has just been paid on the second agreement while the first one, in
\* another status, has never paid rent, holds a deposit and owes a late fee
C39_Witness ==
    /\ last.op = "processRentPayment"
    /\ last.result = Ok
    /\ last.args.agreementId = 2
    /\ lastPaymentDate[2] = now
    /\ lastPaymentDate[1] = 0
    /\ depositBalances[1] > 0
    /\ depositBalances[2] = 0
    /\ Len(paymentHistory[1]) > 0
    /\ outstandingBalance[1] > 0
    /\ outstandingBalance[2] = 0
    /\ agreements[1].status # agreements[2].status


\* rentAmount x 10 / 100 of a stored agreement
lateFeeOf(id) == (agreements[id].rentAmount * 10) \div 100

\* C40: handleLateFees has no once-per-overdue-period limit and no status
\* guard: each authorized call made more than 5 full days after the last rent
\* payment (after startDate when there has been none) succeeds and adds
\* rentAmount x 10 / 100 to the outstanding balance of the agreement, whatever
\* its status and however often it has been charged before, so that the
\* balance of an agreement that never paid rent is k x rentAmount x 10 / 100
\* after k such calls.
C40_LateFeesCompound ==
    /\ [](\A id \in AgreementIdInputs :
             (agreementExists(id) /\ lastRentTime(paymentHistory[id], 0) = 0)
             => outstandingBalance[id] = lateFeesCharged[id] * lateFeeOf(id))
    /\ [][ \A id \in AgreementIdInputs :
             ( /\ last'.op = "handleLateFees"
               /\ last'.args.agreementId = id
               /\ onlyAuthorized(last'.caller)
               /\ agreementExists(id)
               /\ LET ref == lastRentTime(paymentHistory[id],
                                          agreements[id].startDate)
                  IN ref <= now /\ (now - ref) \div 86400 > 5 )
             => /\ last'.result = Ok
                /\ last'.ret = lateFeeOf(id)
                /\ outstandingBalance'[id] = outstandingBalance[id] + lateFeeOf(id)
                /\ lateFeesCharged'[id] = lateFeesCharged[id] + 1 ]_vars

\* a terminated agreement that never paid rent has just been charged a second
\* time within the first month after its start date
C40_Witness ==
    /\ last.op = "handleLateFees"
    /\ last.result = Ok
    /\ last.ret > 0
    /\ agreements[last.args.agreementId].status = Terminated
    /\ paymentHistory[last.args.agreementId] = << >>
    /\ lateFeesCharged[last.args.agreementId] = 2
    /\ outstandingBalance[last.args.agreementId] = 2 * last.ret
    /\ now - agreements[last.args.agreementId].startDate
          < DaysPerMonth * SECONDS_PER_DAY

====
